---- MODULE Spec2Model ----
(***************************************************************************)
(* A model of the ActiveMQ connection registry (ConnectionManager,         *)
(* Connection) and of the REST client behind each connection (CoreClient   *)
(* with its Queue/Topic/Broker/Connection services).                       *)
(*                                                                         *)
(* JavaScript runs one handler at a time, but every `await` of an HTTP     *)
(* request is a point where other handlers run.  A handler is therefore    *)
(* one action for the part that runs when it is called and one action for  *)
(* each continuation after an awaited request.  The answer of the broker   *)
(* to a request is chosen nondeterministically when the continuation runs. *)
(***************************************************************************)
EXTENDS Integers, Sequences, FiniteSets, TLC

(***************************************************************************)
(* Bounds of the model.                                                    *)
(***************************************************************************)
MaxFacades == 2      \* facades constructed in one run
MaxTime == 1         \* ticks of the clock read by `new Date()`
MaxInFlight == 2     \* calls that await a request or a disconnect at once
MaxLimit == 2        \* largest `limit` given to browseMessages
MaxTokens == 5       \* longest destination string, in tokens
MaxPolls == 3        \* how long the clock of subscribeToTopic runs, in poll intervals

(***************************************************************************)
(* Values that callers pass in.                                            *)
(***************************************************************************)
Ids == {"a", "b"}

\* A JavaScript value given as connectionId: its typeof and its text.
Str(id) == [t |-> "string", s |-> id]

Undefined == [t |-> "undefined", s |-> ""]

\* the values given to addConnection
IdArgs == {Str(i) : i \in Ids} \cup {Str(""), Undefined}

\* the values given to lookups and removals: "c" is never registered
LookupArgs == IdArgs \cup {Str("c")}

\* A connection config: nul stands for a missing (null/undefined) config,
\* ptype is typeof port ("undefined" when the port is absent); "" stands for
\* an absent username or password.
Cfg(n, h, pt, p) ==
  [nul |-> n, host |-> h, ptype |-> pt, port |-> p, username |-> "", password |-> ""]

\* the config with credentials
WithCredentials(config, u, pw) == [config EXCEPT !.username = u, !.password = pw]

ValidConfigs ==
  {Cfg(FALSE, "h1", "number", 8161), Cfg(FALSE, "h2", "number", 8162)}

InvalidConfigs ==
  {Cfg(TRUE, "", "undefined", 0),
   Cfg(FALSE, "", "number", 8161),
   Cfg(FALSE, "h1", "undefined", 0),
   Cfg(FALSE, "h1", "number", 0),
   Cfg(FALSE, "h1", "number", -1),
   Cfg(FALSE, "h1", "string", 8161)}

Configs == ValidConfigs \cup InvalidConfigs

NoCfg == Cfg(TRUE, "", "undefined", 0)

\* configs of one broker that differ in their credentials
SecretConfigs ==
  {WithCredentials(Cfg(FALSE, "h1", "number", 8161), u, pw) :
     u \in {"", "admin"}, pw \in {"", "s1", "s2"}}

\* ids given to connections that are exported: every non-empty string is
\* accepted as an id, the name of an accessor of Object.prototype included
ExportIds == {"a", "__proto__"}

\* One entry of the object given to importConnections: a key and its config.
ImportEntry(id, config) == [id |-> id, config |-> config]

\* The objects given to importConnections, as the list Object.entries makes of
\* them: none, one or two entries, a key that is not a valid id, a config that
\* the facade rejects.
ImportMaps ==
  { << >>,
    <<ImportEntry("a", Cfg(FALSE, "h1", "number", 8161))>>,
    <<ImportEntry("a", Cfg(FALSE, "h1", "number", 8161)),
      ImportEntry("b", Cfg(FALSE, "h2", "number", 8162))>>,
    <<ImportEntry("b", Cfg(FALSE, "h2", "number", 8162)),
      ImportEntry("a", Cfg(FALSE, "h1", "number", 8161))>>,
    <<ImportEntry("a", Cfg(FALSE, "", "number", 8161)),
      ImportEntry("b", Cfg(FALSE, "h2", "number", 8162))>>,
    <<ImportEntry("", Cfg(FALSE, "h1", "number", 8161)),
      ImportEntry("a", Cfg(FALSE, "h1", "number", 8161))>>,
    <<ImportEntry("a", Cfg(FALSE, "h1", "number", 8161)),
      ImportEntry("b", Cfg(TRUE, "", "undefined", 0))>> }

\* error.message of a failed HTTP request (axios)
NetErrors == {"Network Error"}

\* what the broker answers to a request
Answers == {"ok"} \cup NetErrors

\* names under which a broker registers its management objects
BrokerNames == {"localhost", "brokerA"}

\* this._brokerName = null
NoName == "null"

(***************************************************************************)
(* Error messages, as the pieces the template literals put together.       *)
(***************************************************************************)
NoErr == << >>

ErrInvalidId == <<"Connection ID must be a non-empty string">>

ErrAlreadyExists(id) == <<"Connection '", id, "' already exists">>

ErrNotFound(id) == <<"Connection '", id, "' not found">>

ErrNotActive(id) == <<"Connection '", id, "' is not active">>

ErrNotConnected == <<"Not connected to ActiveMQ broker">>

ErrConnectFailed(msg) == <<"Failed to connect to ActiveMQ: ", msg>>

ErrFailedToConnect(id, inner) == <<"Failed to connect to '", id, "': ">> \o inner

RECURSIVE Join(_, _)
\* Array.prototype.join
Join(s, sep) ==
  IF Len(s) = 0 THEN << >>
  ELSE IF Len(s) = 1 THEN <<s[1]>>
  ELSE <<s[1], sep>> \o Join(Tail(s), sep)

(***************************************************************************)
(* State.                                                                  *)
(***************************************************************************)
VARIABLES
  connections,   \* ConnectionManager.connections: a Map, in insertion order
  facades,       \* the CoreClient state of every ActiveMQFacade constructed
  nFacades,      \* how many facades have been constructed
  now,           \* the clock
  adding,        \* addConnection calls awaiting connect()
  removing,      \* per id, removeConnection calls awaiting disconnect()
  calls,         \* client operations awaiting the broker
  retired,       \* history: entries that were deleted from the registry
  healthCheckTimer, \* ConnectionManager.healthCheckTimer: whether the interval is set
  broker,        \* the ActiveMQ broker behind the clients: its name, its queues
                 \* and, as history, the exchanges it has served
  last           \* the latest step that sent a request, changed the state or
                 \* completed an awaited call: the call it belongs to, its outcome

regVars == <<connections, adding, removing, retired>>
vars ==
  <<connections, facades, nFacades, now, adding, removing, calls, retired,
    healthCheckTimer, broker, last>>

FacadeIds == 1..MaxFacades

Slots == 1..MaxInFlight

\* CoreClient constructor: this.connected = false; this._brokerName = null.
\* everConnected and returned are history: whether connect() ever succeeded,
\* and the first value getBrokerName() returned.
NewFacade ==
  [connected |-> FALSE, brokerName |-> NoName, everConnected |-> FALSE, returned |-> NoName]

\* A JavaScript object: its own properties in the order they were created,
\* and the object that was made its prototype, if one was.
EmptyObject == [own |-> << >>, proto |-> << >>]

\* obj[key] = value: the key '__proto__' is the accessor inherited from
\* Object.prototype, whose setter makes an object value the prototype and
\* creates no property; any other key creates or overwrites an own property.
ObjectSet(obj, key, value) ==
  IF key = "__proto__"
  THEN [obj EXCEPT !.proto = <<value>>]
  ELSE IF \E i \in 1..Len(obj.own) : obj.own[i].key = key
       THEN [obj EXCEPT !.own = [i \in 1..Len(obj.own) |->
                                  IF obj.own[i].key = key
                                  THEN [key |-> key, value |-> value]
                                  ELSE obj.own[i]]]
       ELSE [obj EXCEPT !.own = Append(@, [key |-> key, value |-> value])]

\* Object.keys(obj)
ObjectKeys(obj) == [i \in 1..Len(obj.own) |-> obj.own[i].key]

\* the object that getBrokerStats fills: stats.brokers holds, per connection
\* id, the broker info or the record of the failure
NoStats == [totalConnections |-> 0, healthyConnections |-> 0, brokers |-> EmptyObject]

\* the object that getHealthStatus returns
NoHealthStatus ==
  [totalConnections |-> 0, healthyConnections |-> 0, unhealthyConnections |-> 0,
   connections |-> EmptyObject]

\* The locals of subscribeToTopic: the options as given (0 for one that is
\* absent), timeout and maxMessages after the defaults, startTime, messages,
\* and the time at which the pending timer is due.
Timer(timeout, maxMessages, startTime, messages, wake, options) ==
  [timeout |-> timeout, maxMessages |-> maxMessages, startTime |-> startTime,
   messages |-> messages, wake |-> wake, options |-> options]

NoTimer == Timer(0, 0, 0, << >>, 0, [timeout |-> 0, maxMessages |-> 0])

\* An HTTP request as the broker sees it: api is "send" for POST
\* /api/message/<name>?type=<type> with a form, "receive" for GET on the same
\* path, "read" for the Jolokia read of the queue named <name>, "purge" for
\* the Jolokia exec of its purge operation.
Request(api, name, type, form) == [api |-> api, name |-> name, type |-> type, form |-> form]

NoRequest == Request("", << >>, "", << >>)

\* a client operation slot that holds no call (dest is the destination the
\* call was given, message the message, req the request it awaits, tool the
\* MCP tool that made the call, if one did; started is history: the facades
\* that were registered when disconnectAll was called; for importConnections
\* config is the config of the entry being added, todo the entries behind it,
\* results the records pushed so far, and map, history, the map it was given)
Idle ==
  [op |-> "", id |-> "", f |-> 0, pc |-> "idle", name |-> "", disc |-> FALSE,
   seen |-> NoName, n |-> 0, limit |-> 0, started |-> {}, config |-> NoCfg,
   todo |-> << >>, results |-> << >>, map |-> << >>, stats |-> NoStats,
   healthStatus |-> NoHealthStatus, dest |-> << >>, req |-> NoRequest, tool |-> "",
   message |-> << >>, timer |-> NoTimer, confirm |-> ""]

\* An answer to a request for a message, as the code sees it: the promise is
\* rejected or resolved, the HTTP status (0: no response), the body the broker
\* sent, whether response.data is truthy, and error.message.
Answer(rejected, status, body, truthy, msg) ==
  [rejected |-> rejected, status |-> status, body |-> body, truthy |-> truthy, msg |-> msg]

NoAnswer == Answer(FALSE, 0, "", FALSE, "")

\* the record that getQueueInfo returns
QueueInfo(name, size, consumerCount, enqueueCount, dequeueCount, error) ==
  [name |-> name, size |-> size, consumerCount |-> consumerCount,
   enqueueCount |-> enqueueCount, dequeueCount |-> dequeueCount, error |-> error]

NoInfo == QueueInfo("", 0, 0, 0, 0, "")

\* the record that getBrokerHealth returns
HealthInfo(status, memory, store, temp, error) ==
  [status |-> status, memoryUsagePercentage |-> memory, storeUsagePercentage |-> store,
   tempUsagePercentage |-> temp, error |-> error]

NoHealth == HealthInfo("", 0, 0, 0, "")

\* The latest step: op is the operation, at is "call" for the part that runs when
\* the operation is called and "resume" for a continuation, done tells whether the
\* call returned or threw in this step, reqs counts the HTTP requests the step sent.
\* For a health-check probe wasHealthy is the flag of the connection before it.
\* For an operation on a destination string dest is the string it was given
\* and out the string it returned.
\* What an operation throws before its first await is the value of the operator
\* named <operation>_throws in the state where it is called.
Step(op, at, done, ok, err, id, f, reqs, ret) ==
  [op |-> op, at |-> at, done |-> done, ok |-> ok, err |-> err, id |-> id, f |-> f,
   reqs |-> reqs, ret |-> ret, n |-> 0, ans |-> NoAnswer, info |-> NoInfo,
   health |-> NoHealth, wasHealthy |-> TRUE, exports |-> EmptyObject,
   results |-> << >>, map |-> << >>, stats |-> NoStats, healthStatus |-> NoHealthStatus,
   dest |-> << >>, out |-> << >>, timer |-> NoTimer, confirm |-> "",
   load |-> << >>]

NoStep == Step("", "init", FALSE, TRUE, NoErr, "", 0, 0, "")

\* a call that throws at once: nothing is sent, nothing but `last` changes
Throws(op, id, f, err) ==
  /\ last' = Step(op, "call", TRUE, FALSE, err, id, f, 0, "")
  /\ UNCHANGED <<connections, facades, nFacades, now, adding, removing, calls, retired, healthCheckTimer, broker>>

\* a call that returns at once: nothing is sent, nothing but `last` changes
Returns(op, id, f, ret) ==
  /\ last' = Step(op, "call", TRUE, TRUE, NoErr, id, f, 0, ret)
  /\ UNCHANGED <<connections, facades, nFacades, now, adding, removing, calls, retired, healthCheckTimer, broker>>

(***************************************************************************)
(* The Map of connections.                                                 *)
(***************************************************************************)
Keys(m) == [i \in 1..Len(m) |-> m[i].id]

Has(m, id) == \E i \in 1..Len(m) : m[i].id = id

Get(m, id) == m[CHOOSE i \in 1..Len(m) : m[i].id = id]

\* Map.set keeps the position of a key that is present
MapSet(m, e) ==
  IF Has(m, e.id)
  THEN [i \in 1..Len(m) |-> IF m[i].id = e.id THEN e ELSE m[i]]
  ELSE Append(m, e)

\* removeConnection without `this.connections.delete(connectionId)`
MapDelete_keeps(m, id) == m

Differs(e, id) == e.id # id

MapDelete(m, id) == SelectSeq(m, LAMBDA e : Differs(e, id))

RECURSIVE Sum(_, _)
Sum(f, S) ==
  IF S = {} THEN 0
  ELSE LET x == CHOOSE y \in S : TRUE IN f[x] + Sum(f, S \ {x})

\* the calls that are awaiting something
InFlight ==
  Cardinality(adding) + Sum(removing, Ids)
    + Cardinality({c \in Slots : calls[c].pc # "idle"})

(***************************************************************************)
(* Destination strings.  A string is the sequence of its pieces: a slash,  *)
(* the words queue and topic, and a letter.  No piece begins or ends      *)
(* inside an occurrence of 'queue/', '/queue/', 'topic/' or '/topic/', so  *)
(* the occurrences of these in the text are those in the sequence.         *)
(***************************************************************************)
Tokens4 == {"/", "queue", "topic", "a"}

RECURSIVE StringsOf(_)
StringsOf(n) ==
  IF n = 0 THEN {<< >>}
  ELSE LET shorter == StringsOf(n - 1) IN
       shorter \cup {Append(s, t) : s \in {x \in shorter : Len(x) = n - 1}, t \in Tokens4}

Strings == StringsOf(MaxTokens)

\* String.prototype.startsWith
startsWith(s, prefix) ==
  Len(s) >= Len(prefix) /\ SubSeq(s, 1, Len(prefix)) = prefix

\* the positions at which pattern occurs in s
Occurrences(s, pattern) ==
  {i \in 1..(Len(s) - Len(pattern) + 1) : SubSeq(s, i, i + Len(pattern) - 1) = pattern}

\* String.prototype.replace(pattern, '') with a string pattern: the first
\* occurrence is taken out, wherever it is; without one s is returned
replace(s, pattern) ==
  IF Occurrences(s, pattern) = {} THEN s
  ELSE LET i == CHOOSE j \in Occurrences(s, pattern) :
                  \A k \in Occurrences(s, pattern) : j <= k
       IN SubSeq(s, 1, i - 1) \o SubSeq(s, i + Len(pattern), Len(s))

SlashQueue == <<"/", "queue", "/">>
SlashTopic == <<"/", "topic", "/">>
BareQueue == <<"queue", "/">>
BareTopic == <<"topic", "/">>

\* CoreClient.cleanDestinationName
cleanDestinationName(destination) ==
  replace(replace(replace(replace(destination, SlashQueue), BareQueue), SlashTopic),
          BareTopic)

\* parseDestination, if it took the name from cleanDestinationName
parseDestination_cleans(destination) ==
  [destinationName |-> cleanDestinationName(destination),
   destinationType |-> IF \/ startsWith(destination, SlashTopic)
                          \/ startsWith(destination, BareTopic)
                       THEN "topic" ELSE "queue"]

\* CoreClient.parseDestination
parseDestination(destination) ==
  IF startsWith(destination, SlashQueue)
  THEN [destinationName |-> replace(destination, SlashQueue), destinationType |-> "queue"]
  ELSE IF startsWith(destination, SlashTopic)
  THEN [destinationName |-> replace(destination, SlashTopic), destinationType |-> "topic"]
  ELSE IF startsWith(destination, BareQueue)
  THEN [destinationName |-> replace(destination, BareQueue), destinationType |-> "queue"]
  ELSE IF startsWith(destination, BareTopic)
  THEN [destinationName |-> replace(destination, BareTopic), destinationType |-> "topic"]
  ELSE [destinationName |-> destination, destinationType |-> "queue"]

(***************************************************************************)
(* The broker, as the requests of the clients see it.  It is the           *)
(* environment of the program: a POST to /api/message enqueues, a GET on   *)
(* it dequeues the oldest message or answers 204, the Jolokia read of a    *)
(* queue returns its counters, the Jolokia purge empties it.               *)
(***************************************************************************)
MaxServed == 4       \* exchanges the broker serves in one run

\* the destinations given to the operations, and the queue names among them
T1 == <<"/", "queue", "/", "t1">>
T2 == <<"/", "queue", "/", "t2">>
Destinations == {T1, T2}
QueueArgs == {<<"t1">>, T2}

\* the names a request can carry
BrokerQueues == {<<"t1">>, <<"t2">>} \cup Destinations \cup QueueArgs

\* message bodies: 'hello', and one that holds a form separator
Hello == <<"hello">>
Bodies == {Hello, <<"a", "&", "b">>}

QueueState(messages, enqueueCount, dequeueCount) ==
  [messages |-> messages, enqueueCount |-> enqueueCount, dequeueCount |-> dequeueCount]

EmptyQueue == QueueState(<< >>, 0, 0)

\* a broker named brokerA whose queues are empty
NoBroker ==
  [name |-> "brokerA", queues |-> [n \in BrokerQueues |-> EmptyQueue], served |-> << >>]

\* encodeURIComponent, on the pieces that a form gives a meaning to
encodeURIComponent(text) ==
  [i \in 1..Len(text) |->
     IF text[i] = "&" THEN "%26" ELSE IF text[i] = "=" THEN "%3D"
     ELSE IF text[i] = "%" THEN "%25" ELSE text[i]]

\* the form without encoding of the body
FormData_raw(messageBody) == <<"body", "=">> \o messageBody

\* `body=${encodeURIComponent(messageBody)}`
FormData(messageBody) == <<"body", "=">> \o encodeURIComponent(messageBody)

\* the broker's reading of an x-www-form-urlencoded form whose first
\* parameter is body: the value ends at the first '&', and is decoded
FormBody(form) ==
  LET ends == {i \in 1..Len(form) : form[i] = "&"} \cup {Len(form) + 1}
      end == CHOOSE i \in ends : \A j \in ends : i <= j
      value == SubSeq(form, 3, end - 1)
  IN [i \in 1..Len(value) |->
        IF value[i] = "%26" THEN "&" ELSE IF value[i] = "%3D" THEN "="
        ELSE IF value[i] = "%25" THEN "%" ELSE value[i]]

\* the value of a Jolokia answer; defined is false for `null` and for an
\* answer that has no value
Value(defined, QueueSize, ConsumerCount, EnqueueCount, DequeueCount, count) ==
  [defined |-> defined, QueueSize |-> QueueSize, ConsumerCount |-> ConsumerCount,
   EnqueueCount |-> EnqueueCount, DequeueCount |-> DequeueCount, count |-> count]

NoValue == Value(FALSE, 0, 0, 0, 0, 0)

\* A response: status, response.data for a message (text that is not JSON is
\* handed over as it is; the empty text is falsy), response.data.value.
Reply(status, data, value) ==
  [rejected |-> FALSE, status |-> status, body |-> data, truthy |-> data # << >>,
   msg |-> "", value |-> value]

\* a request that got no response
Failed(msg) ==
  [rejected |-> TRUE, status |-> 0, body |-> << >>, truthy |-> FALSE, msg |-> msg,
   value |-> NoValue]

\* What the broker b does with a request that names it brokerName in a
\* Jolokia path, and what it answers; reports tells whether the purge
\* operation answers the number of messages it removed or null.
Broker_serve(b, req, brokerName, reports) ==
  LET q == b.queues[req.name] IN
  IF req.api = "send"
  THEN [broker |-> IF req.type = "queue"
                   THEN [b EXCEPT !.queues[req.name] =
                           QueueState(Append(q.messages, FormBody(req.form)),
                                      q.enqueueCount + 1, q.dequeueCount)]
                   ELSE b,
        reply |-> Reply(200, <<"Message sent">>, NoValue)]
  ELSE IF req.api = "receive"
  THEN IF req.type = "queue" /\ q.messages # << >>
       THEN [broker |-> [b EXCEPT !.queues[req.name] =
                           QueueState(Tail(q.messages), q.enqueueCount,
                                      q.dequeueCount + 1)],
             reply |-> Reply(200, Head(q.messages), NoValue)]
       ELSE [broker |-> b, reply |-> Reply(204, << >>, NoValue)]
  ELSE IF brokerName # b.name
  THEN [broker |-> b, reply |-> Reply(200, <<"error">>, NoValue)]
  ELSE IF req.api = "read"
  THEN [broker |-> b,
        reply |-> Reply(200, <<"value">>,
                        Value(TRUE, Len(q.messages), 0, q.enqueueCount, q.dequeueCount, 0))]
  ELSE [broker |-> [b EXCEPT !.queues[req.name] =
                      QueueState(<< >>, q.enqueueCount,
                                 q.dequeueCount + Len(q.messages))],
        reply |-> Reply(200, <<"value">>,
                        IF reports THEN Value(TRUE, 0, 0, 0, 0, Len(q.messages))
                        ELSE NoValue)]

(***************************************************************************)
(* CoreClient: construction, connect, disconnect.                          *)
(***************************************************************************)
\* the constructor without its check of the port
CoreClient_constructor_anyPort(config) ==
  IF config.nul THEN <<"Configuration is required">>
  ELSE IF config.host = "" THEN <<"Host is required in configuration">>
  ELSE NoErr

\* The checks of the constructor; NoErr when the client is constructed.
CoreClient_constructor(config) ==
  IF config.nul THEN <<"Configuration is required">>
  ELSE IF config.host = "" THEN <<"Host is required in configuration">>
  ELSE IF \/ config.ptype = "undefined"
          \/ config.port = 0
          \/ config.ptype # "number"
          \/ config.port <= 0
       THEN <<"Valid port number is required in configuration">>
  ELSE NoErr

isConnected(fs, f) == fs[f].connected

\* connect() without `this.connected = true`
CoreClient_connected_not(fs, f) == fs

\* connect(): the reachability request succeeded
CoreClient_connected(fs, f) ==
  [fs EXCEPT ![f].connected = TRUE, ![f].everConnected = TRUE]

\* disconnect() without `this.connected = false`
CoreClient_disconnect_not(fs, f) == fs

\* disconnect(): clears the flag whatever it was, and never throws
CoreClient_disconnect(fs, f) == [fs EXCEPT ![f].connected = FALSE]

(***************************************************************************)
(* Connection: one entry of the registry.                                  *)
(***************************************************************************)
\* a Connection whose constructor left lastHealthCheck unset and healthy false
Connection_unchecked(connectionId, activemqFacade, config, t) ==
  [id |-> connectionId, facade |-> activemqFacade, config |-> config,
   createdAt |-> t, lastHealthCheck |-> 0, healthy |-> FALSE]

Connection(connectionId, activemqFacade, config, t) ==
  [id |-> connectionId, facade |-> activemqFacade, config |-> config,
   createdAt |-> t, lastHealthCheck |-> t, healthy |-> TRUE]

Connection_getConnectionInfo(e, fs) ==
  [connectionId |-> e.id, host |-> e.config.host, port |-> e.config.port,
   connected |-> isConnected(fs, e.facade), healthy |-> e.healthy,
   createdAt |-> e.createdAt, lastHealthCheck |-> e.lastHealthCheck]

\* Connection.disconnect: the facade's disconnect, any error of it swallowed
Connection_disconnect(e, fs) == CoreClient_disconnect(fs, e.facade)

(***************************************************************************)
(* ConnectionManager: reads.                                               *)
(***************************************************************************)
Falsy(v) ==
  \/ v.t = "undefined"
  \/ v.t = "string" /\ v.s = ""
  \/ v.t = "number" /\ v.s = "0"

\* `${connectionId}`
Show(v) == IF v.t = "undefined" THEN "undefined" ELSE v.s

\* !connectionId || typeof connectionId !== 'string'
InvalidId(v) == Falsy(v) \/ v.t # "string"

\* this.connections.has / get with any JavaScript value as key
Registered(m, v) == v.t = "string" /\ Has(m, v.s)

ErrNotFoundAvailable(id, available) ==
  IF Len(available) > 0
  THEN <<"Connection '", id, "' not found. Available connections: ">>
         \o Join(available, ", ")
  ELSE <<"Connection '", id, "' not found. No connections available.">>

\* getConnection without `if (!connection.isConnected())`
getConnection_noActiveCheck(m, fs, v) ==
  IF InvalidId(v) THEN [ok |-> FALSE, err |-> ErrInvalidId, facade |-> 0]
  ELSE IF ~Has(m, v.s)
       THEN [ok |-> FALSE, err |-> ErrNotFoundAvailable(v.s, Keys(m)), facade |-> 0]
  ELSE [ok |-> TRUE, err |-> NoErr, facade |-> Get(m, v.s).facade]

\* getConnection: the facade of an active entry, or the error thrown
getConnection(m, fs, v) ==
  IF InvalidId(v) THEN [ok |-> FALSE, err |-> ErrInvalidId, facade |-> 0]
  ELSE IF ~Has(m, v.s)
       THEN [ok |-> FALSE, err |-> ErrNotFoundAvailable(v.s, Keys(m)), facade |-> 0]
  ELSE IF ~isConnected(fs, Get(m, v.s).facade)
       THEN [ok |-> FALSE, err |-> ErrNotActive(v.s), facade |-> 0]
  ELSE [ok |-> TRUE, err |-> NoErr, facade |-> Get(m, v.s).facade]

\* getConnection called on the manager: synchronous, it sends nothing
ConnectionManager_getConnection(v) ==
  LET r == getConnection(connections, facades, v) IN
  IF r.ok
  THEN Returns("getConnection", v.s, r.facade, "facade")
  ELSE Throws("getConnection", v.s, 0, r.err)

listConnections(m, fs) ==
  [i \in 1..Len(m) |-> Connection_getConnectionInfo(m[i], fs)]

getConnectionInfo(m, fs, id) == Connection_getConnectionInfo(Get(m, id), fs)

(***************************************************************************)
(* ConnectionManager.addConnection.                                        *)
(***************************************************************************)
\* addConnection without `this.connections.has(connectionId)`
addConnection_throws_noDuplicate(m, v, config) ==
  IF InvalidId(v) THEN ErrInvalidId
  ELSE CoreClient_constructor(config)

\* addConnection if an id, once removed, stayed taken
addConnection_throws_retired(m, v, config) ==
  IF InvalidId(v) THEN ErrInvalidId
  ELSE IF Has(m, v.s) \/ \E r \in retired : r.id = v.s THEN ErrAlreadyExists(v.s)
  ELSE CoreClient_constructor(config)

\* What addConnection throws before its first await: the two checks of the id,
\* then the error of the facade's constructor; NoErr when it goes on to connect.
addConnection_throws(m, v, config) ==
  IF InvalidId(v) THEN ErrInvalidId
  ELSE IF Has(m, v.s) THEN ErrAlreadyExists(v.s)
  ELSE CoreClient_constructor(config)

\* The part that runs when addConnection is called: the checks, the
\* construction of the facade, and the request that connect() sends.
addConnection(v, config) ==
  IF addConnection_throws(connections, v, config) # NoErr
  THEN Throws("addConnection", v.s, 0, addConnection_throws(connections, v, config))
  ELSE
    /\ nFacades < MaxFacades
    /\ InFlight < MaxInFlight
    /\ nFacades' = nFacades + 1
    /\ facades' = [facades EXCEPT ![nFacades + 1] = NewFacade]
    /\ adding' = adding \cup {[id |-> v.s, config |-> config, facade |-> nFacades + 1]}
    /\ last' = Step("addConnection", "call", FALSE, TRUE, NoErr, v.s, nFacades + 1, 1, "")
    /\ UNCHANGED <<connections, now, removing, calls, retired, healthCheckTimer, broker>>

\* addConnection if it stored the entry whatever connect() did
addConnection_store_always(m, call, ans, t) ==
  MapSet(m, Connection(call.id, call.facade, call.config, t))

\* What the continuation stores: an entry, and only when connect() succeeded.
addConnection_store(m, call, ans, t) ==
  IF ans = "ok"
  THEN MapSet(m, Connection(call.id, call.facade, call.config, t))
  ELSE m

\* The error of a failed addConnection after the facade was constructed.
addConnection_error(call, ans) ==
  ErrFailedToConnect(call.id, ErrConnectFailed(ans))

\* The continuation after `await activemqFacade.connect()`.
addConnection_resume(call, ans) ==
  /\ call \in adding
  /\ adding' = adding \ {call}
  /\ facades' = IF ans = "ok" THEN CoreClient_connected(facades, call.facade) ELSE facades
  /\ connections' = addConnection_store(connections, call, ans, now)
  /\ last' = IF ans = "ok"
             THEN Step("addConnection", "resume", TRUE, TRUE, NoErr, call.id,
                       call.facade, 0, "connected")
             ELSE Step("addConnection", "resume", TRUE, FALSE,
                       addConnection_error(call, ans), call.id, call.facade, 0, "")
  /\ UNCHANGED <<nFacades, now, removing, calls, retired, healthCheckTimer, broker>>

(***************************************************************************)
(* ConnectionManager.removeConnection.                                     *)
(***************************************************************************)
removeConnection_throws(m, v) ==
  IF ~Registered(m, v) THEN ErrNotFound(Show(v)) ELSE NoErr

\* The part that runs when removeConnection is called: the lookup, and the
\* disconnect of the facade, which clears its flag before the first await.
removeConnection(v) ==
  IF removeConnection_throws(connections, v) # NoErr
  THEN Throws("removeConnection", v.s, 0, removeConnection_throws(connections, v))
  ELSE
    /\ InFlight < MaxInFlight
    /\ facades' = Connection_disconnect(Get(connections, v.s), facades)
    /\ removing' = [removing EXCEPT ![v.s] = @ + 1]
    /\ last' = Step("removeConnection", "call", FALSE, TRUE, NoErr, v.s,
                    Get(connections, v.s).facade, 0, "")
    /\ UNCHANGED <<connections, nFacades, now, adding, calls, retired, healthCheckTimer, broker>>

\* the operations that iterate over the Map with an await in the loop
Iterating == {"performHealthCheck", "ConnectionManager.getBrokerStats", "getSystemStatus"}

\* A Map iterator stands on the entry at position n. When an entry at or
\* before it is deleted the entries behind move up, and the iterator with them.
Iterators_delete(cs, m, id) ==
  [c \in Slots |->
     IF /\ cs[c].op \in Iterating
        /\ \E i \in 1..Len(m) : m[i].id = id /\ i <= cs[c].n
     THEN [cs[c] EXCEPT !.n = @ - 1]
     ELSE cs[c]]

\* The continuation after `await connection.disconnect()`.
removeConnection_resume(id) ==
  /\ removing[id] > 0
  /\ removing' = [removing EXCEPT ![id] = @ - 1]
  /\ connections' = MapDelete(connections, id)
  /\ calls' = Iterators_delete(calls, connections, id)
  /\ retired' = IF Has(connections, id)
                THEN retired \cup {[id |-> id, facade |-> Get(connections, id).facade]}
                ELSE retired
  /\ last' = Step("removeConnection", "resume", TRUE, TRUE, NoErr, id, 0, 0, "removed")
  /\ UNCHANGED <<facades, nFacades, now, adding, healthCheckTimer, broker>>

(***************************************************************************)
(* The clock.                                                              *)
(***************************************************************************)
Tick ==
  /\ now < MaxTime
  /\ now' = now + 1
  /\ last' = Step("tick", "env", FALSE, TRUE, NoErr, "", 0, 0, "")
  /\ UNCHANGED <<connections, facades, nFacades, adding, removing, calls, retired, healthCheckTimer, broker>>

(***************************************************************************)
(* Client operations: how a call throws, returns, or awaits a request.     *)
(***************************************************************************)
clientFrame == UNCHANGED <<connections, nFacades, now, adding, removing, retired, healthCheckTimer, broker>>

\* 'Not connected to ActiveMQ broker', thrown by the check that opens an operation
NotConnected(fs, f) == IF ~isConnected(fs, f) THEN ErrNotConnected ELSE NoErr

\* A rejected client operation: the call throws at once and leaves every
\* variable as it is; what it throws is its <operation>_throws in that state.
Nothing == UNCHANGED vars

FreeSlot ==
  CHOOSE c \in Slots :
    calls[c].pc = "idle" /\ \A d \in Slots : d < c => calls[d].pc # "idle"

\* the call sends `reqs` requests and awaits at pc
Awaits(op, id, f, pc, name, disc, limit, reqs) ==
  /\ InFlight < MaxInFlight
  /\ calls' = [calls EXCEPT ![FreeSlot] =
                 [op |-> op, id |-> id, f |-> f, pc |-> pc, name |-> name,
                  disc |-> disc, seen |-> facades[f].returned, n |-> 0, limit |-> limit,
                  started |-> {}, config |-> NoCfg, todo |-> << >>, results |-> << >>,
                  map |-> << >>, stats |-> NoStats, healthStatus |-> NoHealthStatus,
                  dest |-> << >>, req |-> NoRequest, tool |-> "", message |-> << >>,
                  timer |-> NoTimer, confirm |-> ""]]
  /\ last' = Step(op, "call", FALSE, TRUE, NoErr, id, f, reqs, "")
  /\ UNCHANGED facades
  /\ clientFrame

\* the awaited call returns or throws
Finish(c, ok, err, ret, n) ==
  /\ calls' = [calls EXCEPT ![c] = Idle]
  /\ last' = [Step(calls[c].op, "resume", TRUE, ok, err, calls[c].id, calls[c].f, 0, ret)
                EXCEPT !.n = n]
  /\ UNCHANGED facades
  /\ clientFrame

\* the awaited call sends its next request and awaits at pc
Goes(c, pc, name, n) ==
  /\ calls' = [calls EXCEPT ![c].pc = pc, ![c].name = name, ![c].n = n]
  /\ last' = Step(calls[c].op, "resume", FALSE, TRUE, NoErr, calls[c].id, calls[c].f, 1, "")
  /\ UNCHANGED facades
  /\ clientFrame

At(c, op, pc) == calls[c].op = op /\ calls[c].pc = pc

(***************************************************************************)
(* CoreClient.connect and disconnect, called on a client directly.         *)
(***************************************************************************)
\* connect(): nothing to do when connected, else the reachability request
CoreClient_connect(id, f) ==
  IF isConnected(facades, f)
  THEN Returns("connect", id, f, "undefined")
  ELSE Awaits("connect", id, f, "connect", "", FALSE, 0, 1)

\* connect() if it set the flag whatever the request did
CoreClient_connect_answer_always(fs, f, ans) == CoreClient_connected(fs, f)

\* what the answer to the reachability request does to the client
CoreClient_connect_answer(fs, f, ans) ==
  IF ans = "ok" THEN CoreClient_connected(fs, f) ELSE fs

CoreClient_connect_resume(c, ans) ==
  /\ At(c, "connect", "connect")
  /\ calls' = [calls EXCEPT ![c] = Idle]
  /\ facades' = CoreClient_connect_answer(facades, calls[c].f, ans)
  /\ last' = IF ans = "ok"
             THEN Step("connect", "resume", TRUE, TRUE, NoErr, calls[c].id, calls[c].f,
                       0, "connected")
             ELSE Step("connect", "resume", TRUE, FALSE, ErrConnectFailed(ans),
                       calls[c].id, calls[c].f, 0, "")
  /\ clientFrame

disconnect(id, f) ==
  /\ facades' = CoreClient_disconnect(facades, f)
  /\ last' = Step("disconnect", "call", TRUE, TRUE, NoErr, id, f, 0, "disconnected")
  /\ UNCHANGED calls
  /\ clientFrame

(***************************************************************************)
(* CoreClient.getBrokerName: the cached name, or the discovery request.    *)
(***************************************************************************)
\* if (this._brokerName) return it; else send the discovery request
WithBrokerName(op, id, f) ==
  IF facades[f].brokerName # NoName
  THEN Awaits(op, id, f, "main", facades[f].brokerName, FALSE, 0, 1)
  ELSE Awaits(op, id, f, "name", "", TRUE, 0, 1)

getBrokerName(id, f) ==
  IF facades[f].brokerName # NoName
  THEN Returns("getBrokerName", id, f, facades[f].brokerName)
  ELSE Awaits("getBrokerName", id, f, "name", "", TRUE, 0, 1)

\* what discovery can answer: a key naming the broker, no such key, an error
NameAnswers == BrokerNames \cup {"nokey"} \cup NetErrors

\* the name taken from the answer: 'localhost' without a key and on an error
Discovered(ans) == IF ans \in BrokerNames THEN ans ELSE "localhost"

\* the cache, if every client shared one name
CoreClient_cache_shared(fs, f, name) ==
  [g \in DOMAIN fs |->
     [fs[g] EXCEPT !.brokerName = name,
                   !.returned = IF g = f /\ @ = NoName THEN name ELSE @]]

\* this._brokerName = name (returned is history: the first name ever returned)
CoreClient_cache(fs, f, name) ==
  [fs EXCEPT ![f].brokerName = name,
             ![f].returned = IF @ = NoName THEN name ELSE @]

\* The continuation of getBrokerName after the discovery request, and of the
\* operation that called it, up to that operation's own request.
getBrokerName_resume(c, ans) ==
  /\ calls[c].pc = "name"
  /\ facades' = CoreClient_cache(facades, calls[c].f, Discovered(ans))
  /\ IF calls[c].op = "getBrokerName"
     THEN /\ calls' = [calls EXCEPT ![c] = Idle]
          /\ last' = Step("getBrokerName", "resume", TRUE, TRUE, NoErr, calls[c].id,
                          calls[c].f, 0, Discovered(ans))
     ELSE /\ calls' = [calls EXCEPT ![c].pc = "main", ![c].name = Discovered(ans)]
          /\ last' = Step(calls[c].op, "resume", FALSE, TRUE, NoErr, calls[c].id,
                          calls[c].f, 1, "")
  /\ clientFrame

(***************************************************************************)
(* QueueService.                                                           *)
(***************************************************************************)
\* What the broker can answer to GET /api/message/<name>: a body, a body that
\* the HTTP client hands over as a falsy value (0, false, null), an empty body,
\* 204, an error that carries the status 204, an error status, no response.
MessageAnswers ==
  { Answer(FALSE, 200, "text", TRUE, ""),
    Answer(FALSE, 200, "0", FALSE, ""),
    Answer(FALSE, 200, "", FALSE, ""),
    Answer(FALSE, 204, "", FALSE, ""),
    Answer(TRUE, 204, "", FALSE, "Request failed with status code 204"),
    Answer(TRUE, 500, "", FALSE, "Request failed with status code 500") }
    \cup { Answer(TRUE, 0, "", FALSE, e) : e \in NetErrors }

\* response.status === 204 || !response.data, or error.response?.status === 204
NoMessage(ans) ==
  IF ans.rejected THEN ans.status = 204 ELSE ans.status = 204 \/ ~ans.truthy

\* What consumeMessage does with the answer: null, the message, or the error.
consumeMessage_result(ans) ==
  IF NoMessage(ans) THEN [ok |-> TRUE, err |-> NoErr, ret |-> "null"]
  ELSE IF ~ans.rejected THEN [ok |-> TRUE, err |-> NoErr, ret |-> "message"]
  ELSE [ok |-> FALSE, err |-> <<"Failed to consume message: ", ans.msg>>, ret |-> ""]

QueueService_sendMessage_throws(fs, f) == NotConnected(fs, f)

QueueService_sendMessage(id, f) ==
  IF QueueService_sendMessage_throws(facades, f) # NoErr
  THEN Nothing
  ELSE Awaits("sendMessage", id, f, "main", "", FALSE, 0, 1)

sendMessage_resume(c, ans) ==
  /\ At(c, "sendMessage", "main")
  /\ IF ans = "ok"
     THEN Finish(c, TRUE, NoErr, "success", 0)
     ELSE Finish(c, FALSE, <<"Failed to send message: ", ans>>, "", 0)

QueueService_consumeMessage_throws(fs, f) == NotConnected(fs, f)

QueueService_consumeMessage(id, f) ==
  IF QueueService_consumeMessage_throws(facades, f) # NoErr
  THEN Nothing
  ELSE Awaits("consumeMessage", id, f, "main", "", FALSE, 0, 1)

consumeMessage_resume(c, ans) ==
  /\ At(c, "consumeMessage", "main")
  /\ calls' = [calls EXCEPT ![c] = Idle]
  /\ last' = [Step("consumeMessage", "resume", TRUE, consumeMessage_result(ans).ok,
                   consumeMessage_result(ans).err, calls[c].id, calls[c].f, 0,
                   consumeMessage_result(ans).ret)
                EXCEPT !.ans = ans]
  /\ UNCHANGED facades
  /\ clientFrame

QueueService_browseMessages_throws(fs, f) == NotConnected(fs, f)

QueueService_browseMessages(id, f, limit) ==
  IF QueueService_browseMessages_throws(facades, f) # NoErr
  THEN Nothing
  ELSE IF ~(0 < limit)
       THEN Nothing
  ELSE Awaits("browseMessages", id, f, "main", "", FALSE, limit, 1)

\* the loop if it had no bound: while (true)
browseMessages_next_whileTrue(call, ans) ==
  IF NoMessage(ans)
  THEN [done |-> TRUE, ok |-> TRUE, err |-> NoErr, n |-> call.n]
  ELSE IF ans.rejected
  THEN [done |-> TRUE, ok |-> FALSE, err |-> <<"Failed to browse messages: ", ans.msg>>,
        n |-> 0]
  ELSE [done |-> FALSE, ok |-> TRUE, err |-> NoErr, n |-> call.n + 1]

\* One turn of the loop `while (browsed < limit)` after its request was answered:
\* break, throw, or push the message and test the bound again.
browseMessages_next(call, ans) ==
  IF NoMessage(ans)
  THEN [done |-> TRUE, ok |-> TRUE, err |-> NoErr, n |-> call.n]
  ELSE IF ans.rejected
  THEN [done |-> TRUE, ok |-> FALSE, err |-> <<"Failed to browse messages: ", ans.msg>>,
        n |-> 0]
  ELSE IF call.n + 1 < call.limit
  THEN [done |-> FALSE, ok |-> TRUE, err |-> NoErr, n |-> call.n + 1]
  ELSE [done |-> TRUE, ok |-> TRUE, err |-> NoErr, n |-> call.n + 1]

\* n is messages.length: in `calls` while the loop runs, in `last` when it ends
browseMessages_resume(c, ans) ==
  /\ At(c, "browseMessages", "main")
  /\ calls' = IF browseMessages_next(calls[c], ans).done
              THEN [calls EXCEPT ![c] = Idle]
              ELSE [calls EXCEPT ![c].n = browseMessages_next(calls[c], ans).n]
  /\ last' = [Step("browseMessages", "resume", browseMessages_next(calls[c], ans).done,
                   browseMessages_next(calls[c], ans).ok,
                   browseMessages_next(calls[c], ans).err, calls[c].id, calls[c].f,
                   IF browseMessages_next(calls[c], ans).done THEN 0 ELSE 1,
                   IF browseMessages_next(calls[c], ans).done
                        /\ browseMessages_next(calls[c], ans).ok
                   THEN "messages" ELSE "")
                EXCEPT !.n = browseMessages_next(calls[c], ans).n, !.ans = ans]
  /\ UNCHANGED facades
  /\ clientFrame

QueueService_purgeQueue_throws(fs, f) == NotConnected(fs, f)

QueueService_purgeQueue(id, f) ==
  IF QueueService_purgeQueue_throws(facades, f) # NoErr
  THEN Nothing
  ELSE WithBrokerName("purgeQueue", id, f)

purgeQueue_resume(c, ans) ==
  /\ At(c, "purgeQueue", "main")
  /\ IF ans = "ok"
     THEN Finish(c, TRUE, NoErr, "purged", 0)
     ELSE Finish(c, FALSE, <<"Failed to purge queue: ", ans>>, "", 0)

QueueService_getQueueInfo_throws(fs, f) == NotConnected(fs, f)

QueueService_getQueueInfo(id, f) ==
  IF QueueService_getQueueInfo_throws(facades, f) # NoErr
  THEN Nothing
  ELSE WithBrokerName("getQueueInfo", id, f)

\* What the broker can answer to the read of a queue's management object: a
\* value (here a queue that holds one message), an answer without a value, an
\* error status, no response.
ReadAnswers ==
  { Answer(FALSE, 200, "value", TRUE, ""),
    Answer(FALSE, 200, "", FALSE, ""),
    Answer(TRUE, 404, "", FALSE, "Request failed with status code 404") }
    \cup { Answer(TRUE, 0, "", FALSE, e) : e \in NetErrors }

\* getQueueInfo if its catch threw like those of the other operations
getQueueInfo_result_rethrows(queueName, ans) ==
  IF ans.rejected
  THEN [ok |-> FALSE, err |-> <<"Failed to get queue info: ", ans.msg>>, info |-> NoInfo]
  ELSE [ok |-> TRUE, err |-> NoErr,
        info |-> IF ans.truthy THEN QueueInfo("q", 1, 0, 1, 0, "")
                 ELSE QueueInfo("q", 0, 0, 0, 0, "")]

\* What getQueueInfo returns: the counts of the value read, 0 for each count
\* the answer lacks, and from the catch the zeroed record with error.message.
getQueueInfo_result(queueName, ans) ==
  IF ans.rejected
  THEN [ok |-> TRUE, err |-> NoErr, info |-> QueueInfo(queueName, 0, 0, 0, 0, ans.msg)]
  ELSE [ok |-> TRUE, err |-> NoErr,
        info |-> IF ans.truthy THEN QueueInfo("q", 1, 0, 1, 0, "")
                 ELSE QueueInfo("q", 0, 0, 0, 0, "")]

\* called as getQueueInfo('/queue/q'), whose clean name is 'q'
getQueueInfo_resume(c, ans) ==
  /\ At(c, "getQueueInfo", "main")
  /\ calls' = [calls EXCEPT ![c] = Idle]
  /\ last' = [Step("getQueueInfo", "resume", TRUE, getQueueInfo_result("/queue/q", ans).ok,
                   getQueueInfo_result("/queue/q", ans).err, calls[c].id, calls[c].f, 0,
                   "info")
                EXCEPT !.ans = ans, !.info = getQueueInfo_result("/queue/q", ans).info]
  /\ UNCHANGED facades
  /\ clientFrame

QueueService_listQueues_throws(fs, f) == NotConnected(fs, f)

QueueService_listQueues(id, f) ==
  IF QueueService_listQueues_throws(facades, f) # NoErr
  THEN Nothing
  ELSE Awaits("listQueues", id, f, "wild", "", FALSE, 0, 1)

(***************************************************************************)
(* TopicService.                                                           *)
(***************************************************************************)
TopicService_publishMessage_throws(fs, f) == NotConnected(fs, f)

TopicService_publishMessage(id, f) ==
  IF TopicService_publishMessage_throws(facades, f) # NoErr
  THEN Nothing
  ELSE Awaits("publishMessage", id, f, "main", "", FALSE, 0, 1)

publishMessage_resume(c, ans) ==
  /\ At(c, "publishMessage", "main")
  /\ IF ans = "ok"
     THEN Finish(c, TRUE, NoErr, "success", 0)
     ELSE Finish(c, FALSE, <<"Failed to publish message: ", ans>>, "", 0)

\* Called with options for which the polling loop is entered; the loop awaits a
\* timer, not the broker, and there is no check of the connection.
TopicService_subscribeToTopic_throws(fs, f) == NoErr

TopicService_subscribeToTopic(id, f) ==
  Awaits("subscribeToTopic", id, f, "poll", "", FALSE, 0, 0)

\* the timer fired: messages is still empty, the loop is left
subscribeToTopic_resume(c) ==
  /\ At(c, "subscribeToTopic", "poll")
  /\ Finish(c, TRUE, NoErr, "messages", 0)

\* subscribeToTopic with its options and the clock, in milliseconds
pollInterval == 1000

DefaultTimeout == 10000

DefaultMaxMessages == 1

\* the timeouts and maxMessages given: absent (0 is falsy as well), some
TimeoutOptions == {0, pollInterval \div 2, pollInterval, 2 * pollInterval}
MaxMessagesOptions == {0, 1, 3}

\* the while condition
subscribeToTopic_goesOn(timer, t) ==
  t - timer.startTime < timer.timeout /\ Len(timer.messages) < timer.maxMessages

\* the step in which subscribeToTopic returns messages
subscribeToTopic_returns(at, id, f, timer) ==
  [Step("subscribeToTopic", at, TRUE, TRUE, NoErr, id, f, 0, "messages")
     EXCEPT !.timer = timer]

\* The part that runs when subscribeToTopic is called: the defaults, the
\* first test of the while condition, and the timer of the first poll.
TopicService_subscribeToTopic_with(id, f, options) ==
  LET timer == Timer(IF options.timeout = 0 THEN DefaultTimeout ELSE options.timeout,
                     IF options.maxMessages = 0 THEN DefaultMaxMessages
                     ELSE options.maxMessages,
                     now, << >>, now + pollInterval, options)
  IN
  /\ IF subscribeToTopic_goesOn(timer, now)
     THEN /\ InFlight < MaxInFlight
          /\ calls' = [calls EXCEPT ![FreeSlot] =
                         [Idle EXCEPT !.op = "subscribeToTopic", !.id = id, !.f = f,
                                      !.pc = "poll", !.timer = timer]]
          /\ last' = [Step("subscribeToTopic", "call", FALSE, TRUE, NoErr, id, f, 0, "")
                        EXCEPT !.timer = timer]
     ELSE /\ last' = subscribeToTopic_returns("call", id, f, timer)
          /\ UNCHANGED calls
  /\ UNCHANGED facades
  /\ clientFrame

\* The timer of a poll fired: with no message the loop is left and messages
\* is returned; otherwise the while condition is tested again.
subscribeToTopic_wake(c) ==
  LET timer == calls[c].timer IN
  /\ At(c, "subscribeToTopic", "poll")
  /\ timer # NoTimer
  /\ now >= timer.wake
  /\ IF Len(timer.messages) = 0 \/ ~subscribeToTopic_goesOn(timer, now)
     THEN /\ calls' = [calls EXCEPT ![c] = Idle]
          /\ last' = subscribeToTopic_returns("resume", calls[c].id, calls[c].f, timer)
     ELSE /\ calls' = [calls EXCEPT ![c].timer.wake = now + pollInterval]
          /\ last' = [Step("subscribeToTopic", "resume", FALSE, TRUE, NoErr, calls[c].id,
                           calls[c].f, 0, "") EXCEPT !.timer = timer]
  /\ UNCHANGED facades
  /\ clientFrame

\* Half a poll interval passes; a timer that is due fires before more time passes.
Elapse ==
  /\ now < MaxPolls * pollInterval
  /\ \A c \in Slots : calls[c].timer # NoTimer => now < calls[c].timer.wake
  /\ now' = now + (pollInterval \div 2)
  /\ last' = Step("tick", "env", FALSE, TRUE, NoErr, "", 0, 0, "")
  /\ UNCHANGED <<connections, facades, nFacades, adding, removing, calls, retired,
                 healthCheckTimer, broker>>

TopicService_listTopics_throws(fs, f) == NotConnected(fs, f)

TopicService_listTopics(id, f) ==
  IF TopicService_listTopics_throws(facades, f) # NoErr
  THEN Nothing
  ELSE Awaits("listTopics", id, f, "wild", "", FALSE, 0, 1)

ListFailed(op) ==
  IF op = "listQueues" THEN "Failed to list queues: " ELSE "Failed to list topics: "

\* The continuations of listQueues and listTopics: the wildcard read, then the
\* read under 'localhost', then the discovery of the name and the read under it.
list_resume(c, ans) ==
  /\ calls[c].op \in {"listQueues", "listTopics"}
  /\ calls[c].pc \in {"wild", "local", "disc", "named"}
  /\ ans \in IF calls[c].pc = "disc" THEN NameAnswers ELSE Answers
  /\ IF calls[c].pc = "wild"
     THEN IF ans = "ok" THEN Finish(c, TRUE, NoErr, "list", 0)
          ELSE Goes(c, "local", "", 0)
     ELSE IF calls[c].pc = "local"
     THEN IF ans = "ok" THEN Finish(c, TRUE, NoErr, "list", 0)
          ELSE Goes(c, "disc", "", 0)
     ELSE IF calls[c].pc = "disc"
     THEN IF ans \in NetErrors
          THEN Finish(c, FALSE, <<ListFailed(calls[c].op), ans>>, "", 0)
          ELSE Goes(c, "named", Discovered(ans), 0)
     ELSE IF ans = "ok" THEN Finish(c, TRUE, NoErr, "list", 0)
          ELSE Finish(c, FALSE, <<ListFailed(calls[c].op), ans>>, "", 0)

(***************************************************************************)
(* BrokerService.                                                          *)
(***************************************************************************)
BrokerService_getBrokerInfo_throws(fs, f) == NotConnected(fs, f)

BrokerService_getBrokerInfo(id, f) ==
  IF BrokerService_getBrokerInfo_throws(facades, f) # NoErr
  THEN Nothing
  ELSE WithBrokerName("getBrokerInfo", id, f)

getBrokerInfo_resume(c, ans) ==
  /\ At(c, "getBrokerInfo", "main")
  /\ IF ans = "ok"
     THEN Finish(c, TRUE, NoErr, "info", 0)
     ELSE Finish(c, FALSE, <<"Failed to get broker info: ", ans>>, "", 0)

\* getBrokerHealth calls getBrokerInfo and turns its error into a result
BrokerService_getBrokerHealth_throws(fs, f) == NotConnected(fs, f)

BrokerService_getBrokerHealth(id, f) ==
  IF BrokerService_getBrokerHealth_throws(facades, f) # NoErr
  THEN Nothing
  ELSE WithBrokerName("getBrokerHealth", id, f)

\* The usage and the limit of memory, store and temp in the broker's answer.
BrokerData(memory, store, temp) ==
  [rejected |-> FALSE, memoryUsage |-> memory[1], memoryLimit |-> memory[2],
   storeUsage |-> store[1], storeLimit |-> store[2],
   tempUsage |-> temp[1], tempLimit |-> temp[2], msg |-> ""]

\* the read of the broker's management object failed
BrokerError(msg) ==
  [rejected |-> TRUE, memoryUsage |-> 0, memoryLimit |-> 0, storeUsage |-> 0,
   storeLimit |-> 0, tempUsage |-> 0, tempLimit |-> 0, msg |-> msg]

\* <<usage, limit>> pairs a broker can report
UsagePairs == { <<0, 0>>, <<10, 100>>, <<80, 100>>, <<95, 100>> }

\* pairs on the edge of a class: 75%, 75.5% that rounds to 76%, 90%, and 90.5%
\* that rounds to 91%
EdgePairs == { <<75, 100>>, <<151, 200>>, <<90, 100>>, <<181, 200>> }

\* every combination of the pairs, and each edge in each of the three places
BrokerAnswers ==
  { BrokerData(m, s, t) : m \in UsagePairs, s \in UsagePairs, t \in UsagePairs }
    \cup { BrokerData(e, <<10, 100>>, <<0, 0>>) : e \in EdgePairs }
    \cup { BrokerData(<<10, 100>>, e, <<0, 0>>) : e \in EdgePairs }
    \cup { BrokerData(<<0, 0>>, <<10, 100>>, e) : e \in EdgePairs }
    \cup { BrokerError(e) : e \in NetErrors }

\* the answers of a broker whose usage does not vary
SteadyBrokerAnswers ==
  { BrokerData(<<10, 100>>, <<10, 100>>, <<10, 100>>) } \cup { BrokerError(e) : e \in NetErrors }

\* Math.round((usage / limit) * 100): the nearest integer, a half rounded up
Round100(usage, limit) == (200 * usage + limit) \div (2 * limit)

\* limit > 0 ? Math.round((usage / limit) * 100) : 0
UsagePercentage(usage, limit) == IF limit > 0 THEN Round100(usage, limit) ELSE 0

\* Math.max of the three percentages
MaxUsage(a, b, c) ==
  IF a >= b /\ a >= c THEN a ELSE IF b >= c THEN b ELSE c

\* the classification if its thresholds were inclusive
HealthStatus_inclusive(maxUsage) ==
  IF maxUsage >= 90 THEN "critical"
  ELSE IF maxUsage >= 75 THEN "warning"
  ELSE "healthy"

\* if (maxUsage > 90) 'critical' else if (maxUsage > 75) 'warning', else 'healthy'
HealthStatus(maxUsage) ==
  IF maxUsage > 90 THEN "critical"
  ELSE IF maxUsage > 75 THEN "warning"
  ELSE "healthy"

\* What getBrokerHealth returns: the percentages and the status, or from its
\* catch the record { status: 'unhealthy', error }.
getBrokerHealth_result(ans) ==
  IF ans.rejected
  THEN HealthInfo("unhealthy", 0, 0, 0, "Failed to get broker info: ")
  ELSE HealthInfo(
         HealthStatus(MaxUsage(UsagePercentage(ans.memoryUsage, ans.memoryLimit),
                               UsagePercentage(ans.storeUsage, ans.storeLimit),
                               UsagePercentage(ans.tempUsage, ans.tempLimit))),
         UsagePercentage(ans.memoryUsage, ans.memoryLimit),
         UsagePercentage(ans.storeUsage, ans.storeLimit),
         UsagePercentage(ans.tempUsage, ans.tempLimit), "")

getBrokerHealth_resume(c, ans) ==
  /\ At(c, "getBrokerHealth", "main")
  /\ calls' = [calls EXCEPT ![c] = Idle]
  /\ last' = [Step("getBrokerHealth", "resume", TRUE, TRUE,
                   IF ans.rejected THEN <<"Failed to get broker info: ", ans.msg>> ELSE NoErr,
                   calls[c].id, calls[c].f, 0,
                   IF ans.rejected THEN "unhealthy" ELSE "health")
                EXCEPT !.ans = ans, !.health = getBrokerHealth_result(ans)]
  /\ UNCHANGED facades
  /\ clientFrame

BrokerService_getBrokerStats_throws(fs, f) == NotConnected(fs, f)

BrokerService_getBrokerStats(id, f) ==
  IF BrokerService_getBrokerStats_throws(facades, f) # NoErr
  THEN Nothing
  ELSE WithBrokerName("getBrokerStats", id, f)

\* the broker read, then the queue and the topic reads, whose errors are swallowed
getBrokerStats_resume(c, ans) ==
  /\ calls[c].op = "getBrokerStats"
  /\ calls[c].pc \in {"main", "queues", "topics"}
  /\ IF calls[c].pc = "main"
     THEN IF ans = "ok" THEN Goes(c, "queues", calls[c].name, 0)
          ELSE Finish(c, FALSE, <<"Failed to get broker statistics: ", ans>>, "", 0)
     ELSE IF calls[c].pc = "queues" THEN Goes(c, "topics", calls[c].name, 0)
     ELSE Finish(c, TRUE, NoErr, "stats", 0)

(***************************************************************************)
(* ConnectionManager: the operations addressed to one connection.  Each    *)
(* looks the facade up with getConnection and calls the facade's method.   *)
(***************************************************************************)
ConnectionManager_sendMessage_throws(m, fs, v) ==
  LET r == getConnection(m, fs, v) IN
  IF r.ok THEN QueueService_sendMessage_throws(fs, r.facade) ELSE r.err

ConnectionManager_sendMessage(v) ==
  LET r == getConnection(connections, facades, v) IN
  IF r.ok THEN QueueService_sendMessage(v.s, r.facade) ELSE Nothing

ConnectionManager_consumeMessage_throws(m, fs, v) ==
  LET r == getConnection(m, fs, v) IN
  IF r.ok THEN QueueService_consumeMessage_throws(fs, r.facade) ELSE r.err

ConnectionManager_consumeMessage(v) ==
  LET r == getConnection(connections, facades, v) IN
  IF r.ok THEN QueueService_consumeMessage(v.s, r.facade) ELSE Nothing

ConnectionManager_getQueueInfo_throws(m, fs, v) ==
  LET r == getConnection(m, fs, v) IN
  IF r.ok THEN QueueService_getQueueInfo_throws(fs, r.facade) ELSE r.err

ConnectionManager_getQueueInfo(v) ==
  LET r == getConnection(connections, facades, v) IN
  IF r.ok THEN QueueService_getQueueInfo(v.s, r.facade) ELSE Nothing

ConnectionManager_listQueues_throws(m, fs, v) ==
  LET r == getConnection(m, fs, v) IN
  IF r.ok THEN QueueService_listQueues_throws(fs, r.facade) ELSE r.err

ConnectionManager_listQueues(v) ==
  LET r == getConnection(connections, facades, v) IN
  IF r.ok THEN QueueService_listQueues(v.s, r.facade) ELSE Nothing

ConnectionManager_listTopics_throws(m, fs, v) ==
  LET r == getConnection(m, fs, v) IN
  IF r.ok THEN TopicService_listTopics_throws(fs, r.facade) ELSE r.err

ConnectionManager_listTopics(v) ==
  LET r == getConnection(connections, facades, v) IN
  IF r.ok THEN TopicService_listTopics(v.s, r.facade) ELSE Nothing

ConnectionManager_browseMessages_throws(m, fs, v) ==
  LET r == getConnection(m, fs, v) IN
  IF r.ok THEN QueueService_browseMessages_throws(fs, r.facade) ELSE r.err

ConnectionManager_browseMessages(v, limit) ==
  LET r == getConnection(connections, facades, v) IN
  IF r.ok THEN QueueService_browseMessages(v.s, r.facade, limit) ELSE Nothing

ConnectionManager_purgeQueue_throws(m, fs, v) ==
  LET r == getConnection(m, fs, v) IN
  IF r.ok THEN QueueService_purgeQueue_throws(fs, r.facade) ELSE r.err

ConnectionManager_purgeQueue(v) ==
  LET r == getConnection(connections, facades, v) IN
  IF r.ok THEN QueueService_purgeQueue(v.s, r.facade) ELSE Nothing

ConnectionManager_getBrokerInfo_throws(m, fs, v) ==
  LET r == getConnection(m, fs, v) IN
  IF r.ok THEN BrokerService_getBrokerInfo_throws(fs, r.facade) ELSE r.err

ConnectionManager_getBrokerInfo(v) ==
  LET r == getConnection(connections, facades, v) IN
  IF r.ok THEN BrokerService_getBrokerInfo(v.s, r.facade) ELSE Nothing

(***************************************************************************)
(* The health check: the interval's callback probes every registered       *)
(* connection in turn, each probe awaited before the next one starts.      *)
(***************************************************************************)
\* Connection.performHealthCheck, the probe failed: healthy = false
Connection_unhealthy(e, t) == [e EXCEPT !.healthy = FALSE, !.lastHealthCheck = t]

\* the probe failed, if its catch did not touch lastHealthCheck
Connection_probed_stale(e, fs, ans, t) ==
  IF ans = "ok"
  THEN [e EXCEPT !.healthy = isConnected(fs, e.facade), !.lastHealthCheck = t]
  ELSE [e EXCEPT !.healthy = FALSE]

\* Connection.performHealthCheck after `await getBrokerInfo()`: healthy is
\* brokerInfo.connected, which getBrokerInfo reads from the client when the
\* answer arrives; false in the catch; lastHealthCheck = new Date() in both.
Connection_probed(e, fs, ans, t) ==
  IF ans = "ok"
  THEN [e EXCEPT !.healthy = isConnected(fs, e.facade), !.lastHealthCheck = t]
  ELSE Connection_unhealthy(e, t)

\* The loop of ConnectionManager.performHealthCheck from the entry at position
\* i on: getBrokerInfo of a client that is not connected throws before any
\* request, so that probe fails at once and the loop goes on; it stops at the
\* first entry whose probe sends a request (n is its position), or at the end
\* of the Map (n is 0).
RECURSIVE performHealthCheck_from(_, _, _, _)
performHealthCheck_from(m, fs, i, t) ==
  IF i > Len(m) THEN [connections |-> m, n |-> 0]
  ELSE IF isConnected(fs, m[i].facade) THEN [connections |-> m, n |-> i]
  ELSE performHealthCheck_from([m EXCEPT ![i] = Connection_unhealthy(@, t)], fs, i + 1, t)

\* the call that awaits the probe of the entry at position i
Probe(m, fs, i) ==
  [op |-> "performHealthCheck", id |-> m[i].id, f |-> m[i].facade,
   pc |-> IF fs[m[i].facade].brokerName # NoName THEN "main" ELSE "name",
   name |-> fs[m[i].facade].brokerName, disc |-> fs[m[i].facade].brokerName = NoName,
   seen |-> fs[m[i].facade].returned, n |-> i, limit |-> 0, started |-> {},
   config |-> NoCfg, todo |-> << >>, results |-> << >>, map |-> << >>,
   stats |-> NoStats, healthStatus |-> NoHealthStatus, dest |-> << >>,
   req |-> NoRequest, tool |-> "", message |-> << >>, timer |-> NoTimer, confirm |-> ""]

\* The callback of the interval set by startHealthCheck.
ConnectionManager_performHealthCheck ==
  LET r == performHealthCheck_from(connections, facades, 1, now) IN
  /\ healthCheckTimer
  /\ connections' = r.connections
  /\ IF r.n = 0
     THEN /\ last' = Step("performHealthCheck", "call", TRUE, TRUE, NoErr, "", 0, 0, "")
          /\ UNCHANGED calls
     ELSE /\ InFlight < MaxInFlight
          /\ calls' = [calls EXCEPT ![FreeSlot] = Probe(connections, facades, r.n)]
          /\ last' = [Step("performHealthCheck", "call", FALSE, TRUE, NoErr,
                           connections[r.n].id, connections[r.n].facade, 1, "")
                        EXCEPT !.n = r.n]
  /\ UNCHANGED <<facades, nFacades, now, adding, removing, retired, healthCheckTimer, broker>>

\* whether the entry the call probes is still the one at its position
Probing(m, call) ==
  /\ call.n \in 1..Len(m)
  /\ m[call.n].id = call.id
  /\ m[call.n].facade = call.f

\* the continuation, if it stored the Connection it holds back into the Map
performHealthCheck_resume_registers(c, ans) ==
  LET call == calls[c]
      m == IF Probing(connections, call)
           THEN [connections EXCEPT ![call.n] = Connection_probed(@, facades, ans, now)]
           ELSE MapSet(connections,
                       Connection_probed(Connection(call.id, call.f, NoCfg, now),
                                         facades, ans, now))
      r == performHealthCheck_from(m, facades, call.n + 1, now)
  IN
  /\ At(c, "performHealthCheck", "main")
  /\ connections' = r.connections
  /\ calls' = [calls EXCEPT ![c] = IF r.n = 0 THEN Idle ELSE Probe(m, facades, r.n)]
  /\ last' = [Step("performHealthCheck", "resume", r.n = 0, TRUE,
                   IF ans = "ok" THEN NoErr ELSE <<"Failed to get broker info: ", ans>>,
                   call.id, call.f, IF r.n = 0 THEN 0 ELSE 1,
                   IF ans = "ok" THEN "passed" ELSE "failed")
                EXCEPT !.n = r.n,
                       !.wasHealthy = IF Probing(connections, call)
                                      THEN connections[call.n].healthy ELSE TRUE]
  /\ UNCHANGED <<facades, nFacades, now, adding, removing, retired, healthCheckTimer, broker>>

\* The continuation after the broker answered the probe's request: the
\* Connection is updated (a Connection that was removed meanwhile is no
\* longer in the Map), and the loop goes on behind it.
performHealthCheck_resume(c, ans) ==
  LET call == calls[c]
      m == IF Probing(connections, call)
           THEN [connections EXCEPT ![call.n] = Connection_probed(@, facades, ans, now)]
           ELSE connections
      r == performHealthCheck_from(m, facades, call.n + 1, now)
  IN
  /\ At(c, "performHealthCheck", "main")
  /\ connections' = r.connections
  /\ calls' = [calls EXCEPT ![c] = IF r.n = 0 THEN Idle ELSE Probe(m, facades, r.n)]
  /\ last' = [Step("performHealthCheck", "resume", r.n = 0, TRUE,
                   IF ans = "ok" THEN NoErr ELSE <<"Failed to get broker info: ", ans>>,
                   call.id, call.f, IF r.n = 0 THEN 0 ELSE 1,
                   IF ans = "ok" THEN "passed" ELSE "failed")
                EXCEPT !.n = r.n,
                       !.wasHealthy = IF Probing(connections, call)
                                      THEN connections[call.n].healthy ELSE TRUE]
  /\ UNCHANGED <<facades, nFacades, now, adding, removing, retired, healthCheckTimer, broker>>

(***************************************************************************)
(* ConnectionManager.disconnectAll.                                        *)
(***************************************************************************)
\* the facades of the registered connections
RegisteredFacades(m) == {m[i].facade : i \in 1..Len(m)}

\* connection.disconnect() of every entry: each clears its client's flag
\* before its first await, and none of them throws
RECURSIVE disconnectAll_disconnects(_, _, _)
disconnectAll_disconnects(m, fs, i) ==
  IF i > Len(m) THEN fs
  ELSE disconnectAll_disconnects(m, Connection_disconnect(m[i], fs), i + 1)

\* disconnectAll without stopHealthCheck()
stopHealthCheck_not(timer) == timer

\* stopHealthCheck: clearInterval, this.healthCheckTimer = null
stopHealthCheck(timer) == FALSE

\* after Map.clear() an iterator in progress stands before whatever is added
Iterators_clear(cs) ==
  [c \in Slots |->
     IF cs[c].op = "performHealthCheck" THEN [cs[c] EXCEPT !.n = 0] ELSE cs[c]]

\* The part that runs when disconnectAll is called: the disconnects are issued.
ConnectionManager_disconnectAll ==
  /\ InFlight < MaxInFlight
  /\ facades' = disconnectAll_disconnects(connections, facades, 1)
  /\ calls' = [calls EXCEPT ![FreeSlot] =
                 [Idle EXCEPT !.op = "disconnectAll", !.pc = "settle",
                              !.started = RegisteredFacades(connections)]]
  /\ last' = [Step("disconnectAll", "call", FALSE, TRUE, NoErr, "", 0, 0, "")
                EXCEPT !.n = Len(connections)]
  /\ UNCHANGED <<connections, nFacades, now, adding, removing, retired, healthCheckTimer, broker>>

\* The continuation after `await Promise.allSettled(disconnectPromises)`:
\* this.connections.clear(); this.stopHealthCheck().
disconnectAll_resume(c) ==
  /\ At(c, "disconnectAll", "settle")
  /\ connections' = << >>
  /\ retired' = retired \cup {[id |-> connections[i].id, facade |-> connections[i].facade] :
                                i \in 1..Len(connections)}
  /\ healthCheckTimer' = stopHealthCheck(healthCheckTimer)
  /\ calls' = [Iterators_clear(calls) EXCEPT ![c] = Idle]
  /\ last' = [Step("disconnectAll", "resume", TRUE, TRUE, NoErr, "", 0, 0, "undefined")
                EXCEPT !.n = Cardinality(calls[c].started)]
  /\ UNCHANGED <<facades, nFacades, now, adding, removing, broker>>

(***************************************************************************)
(* ConnectionManager.testConnection.                                       *)
(***************************************************************************)
\* validateConnectionConfig: the list of errors
validateConnectionConfig(config) ==
  (IF config.host = "" THEN <<"host is required">> ELSE << >>)
    \o (IF config.ptype = "undefined" \/ config.port = 0
        THEN <<"port is required">>
        ELSE IF config.ptype # "number" \/ config.port <= 0
             THEN <<"port must be a positive number">>
             ELSE << >>)

\* What testConnection throws before its try: reading a property of a missing
\* config is a TypeError, an invalid config is reported with its errors, and
\* the facade's constructor runs outside the try.
testConnection_throws(config) ==
  IF config.nul THEN <<"TypeError">>
  ELSE IF validateConnectionConfig(config) # << >>
       THEN <<"Invalid configuration: ", Join(validateConnectionConfig(config), ", ")>>
  ELSE CoreClient_constructor(config)

\* The part that runs when testConnection is called: the validation, a new
\* facade that is not registered, and the request that its connect() sends.
ConnectionManager_testConnection(config) ==
  IF testConnection_throws(config) # NoErr
  THEN Throws("testConnection", "", 0, testConnection_throws(config))
  ELSE
    /\ nFacades < MaxFacades
    /\ InFlight < MaxInFlight
    /\ nFacades' = nFacades + 1
    /\ facades' = [facades EXCEPT ![nFacades + 1] = NewFacade]
    /\ calls' = [calls EXCEPT ![FreeSlot] =
                   [Idle EXCEPT !.op = "testConnection", !.f = nFacades + 1,
                                !.pc = "connect"]]
    /\ last' = Step("testConnection", "call", FALSE, TRUE, NoErr, "", nFacades + 1, 1, "")
    /\ UNCHANGED <<connections, now, adding, removing, retired, healthCheckTimer, broker>>

\* testConnection if its catch threw the error on
testConnection_caught_rethrows(err) == FALSE

\* the catch of testConnection returns { success: false, error }: the call
\* completes normally
testConnection_caught(err) == TRUE

\* The continuation after `await testFacade.connect()`: on success getBrokerInfo
\* starts with the discovery of the broker's name, which a new client has not
\* cached; on failure the catch returns.
testConnection_connect_resume(c, ans) ==
  /\ At(c, "testConnection", "connect")
  /\ facades' = CoreClient_connect_answer(facades, calls[c].f, ans)
  /\ IF ans = "ok"
     THEN /\ calls' = [calls EXCEPT ![c].pc = "name", ![c].disc = TRUE]
          /\ last' = Step("testConnection", "resume", FALSE, TRUE, NoErr, "", calls[c].f,
                          1, "")
     ELSE /\ calls' = [calls EXCEPT ![c] = Idle]
          /\ last' = Step("testConnection", "resume", TRUE,
                          testConnection_caught(ErrConnectFailed(ans)),
                          ErrConnectFailed(ans), "", calls[c].f, 0, "failure")
  /\ clientFrame

\* The continuation after the broker answered getBrokerInfo's request: on
\* success the facade is disconnected and { success: true, brokerInfo } is
\* returned; on failure the catch returns, the facade left as it is.
testConnection_resume(c, ans) ==
  /\ At(c, "testConnection", "main")
  /\ calls' = [calls EXCEPT ![c] = Idle]
  /\ facades' = IF ans = "ok" THEN CoreClient_disconnect(facades, calls[c].f) ELSE facades
  /\ last' = IF ans = "ok"
             THEN Step("testConnection", "resume", TRUE, TRUE, NoErr, "", calls[c].f, 0,
                       "success")
             ELSE Step("testConnection", "resume", TRUE,
                       testConnection_caught(<<"Failed to get broker info: ", ans>>),
                       <<"Failed to get broker info: ", ans>>, "", calls[c].f, 0, "failure")
  /\ clientFrame

(***************************************************************************)
(* ConnectionManager.exportConnections.                                    *)
(***************************************************************************)
\* what is exported of one connection
Exported(e) ==
  [host |-> e.config.host, port |-> e.config.port, username |-> e.config.username,
   createdAt |-> e.createdAt]

\* exports[connectionId] = {...} for the entries from position i on
RECURSIVE exportConnections_from(_, _, _)
exportConnections_from(m, exports, i) ==
  IF i > Len(m) THEN exports
  ELSE exportConnections_from(m, ObjectSet(exports, m[i].id, Exported(m[i])), i + 1)

exportConnections(m) == exportConnections_from(m, EmptyObject, 1)

ConnectionManager_exportConnections ==
  /\ last' = [Step("exportConnections", "call", TRUE, TRUE, NoErr, "", 0, 0, "exports")
                EXCEPT !.exports = exportConnections(connections)]
  /\ UNCHANGED <<connections, facades, nFacades, now, adding, removing, calls, retired,
                 healthCheckTimer, broker>>

(***************************************************************************)
(* ConnectionManager.importConnections.                                    *)
(***************************************************************************)
\* the records pushed to results
Imported(id) ==
  [connectionId |-> id, status |-> "imported", success |-> TRUE, error |-> NoErr]

ImportFailed(id, err) ==
  [connectionId |-> id, status |-> "failed", success |-> FALSE, error |-> err]

\* the loop if the first failing entry ended it
RECURSIVE importConnections_from_aborts(_, _, _)
importConnections_from_aborts(m, todo, results) ==
  IF todo = << >> THEN [todo |-> << >>, results |-> results]
  ELSE IF addConnection_throws(m, Str(Head(todo).id), Head(todo).config) # NoErr
       THEN [todo |-> << >>,
             results |-> Append(results,
                           ImportFailed(Head(todo).id,
                             addConnection_throws(m, Str(Head(todo).id), Head(todo).config)))]
       ELSE [todo |-> todo, results |-> results]

\* The loop over the entries that are left: an entry whose addConnection
\* throws before it sends anything is recorded as failed and the loop goes on;
\* it stops at the first entry whose addConnection awaits connect() (the head
\* of todo), or at the end of the entries.
RECURSIVE importConnections_from(_, _, _)
importConnections_from(m, todo, results) ==
  IF todo = << >> THEN [todo |-> << >>, results |-> results]
  ELSE IF addConnection_throws(m, Str(Head(todo).id), Head(todo).config) # NoErr
       THEN importConnections_from(m, Tail(todo),
              Append(results,
                     ImportFailed(Head(todo).id,
                       addConnection_throws(m, Str(Head(todo).id), Head(todo).config))))
       ELSE [todo |-> todo, results |-> results]

\* the call awaits the connect() of the facade f made for the head of r.todo
ImportAwaits(r, map, f) ==
  [Idle EXCEPT !.op = "importConnections", !.pc = "connect", !.id = Head(r.todo).id,
               !.f = f, !.config = Head(r.todo).config, !.todo = Tail(r.todo),
               !.results = r.results, !.map = map]

\* the step of an import that returns its results
ImportReturns(at, r, map) ==
  [Step("importConnections", at, TRUE, TRUE, NoErr, "", 0, 0, "results")
     EXCEPT !.results = r.results, !.map = map]

\* the step of an import that goes on to await the next connect()
ImportGoes(at, r, map, f) ==
  [Step("importConnections", at, FALSE, TRUE, NoErr, Head(r.todo).id, f, 1, "")
     EXCEPT !.results = r.results, !.map = map]

\* The part that runs when importConnections is called, up to the first
\* connect() that is awaited.
ConnectionManager_importConnections(map) ==
  LET r == importConnections_from(connections, map, << >>) IN
  IF r.todo = << >>
  THEN /\ last' = ImportReturns("call", r, map)
       /\ UNCHANGED <<connections, facades, nFacades, now, adding, removing, calls, retired,
                      healthCheckTimer, broker>>
  ELSE /\ nFacades < MaxFacades
       /\ InFlight < MaxInFlight
       /\ nFacades' = nFacades + 1
       /\ facades' = [facades EXCEPT ![nFacades + 1] = NewFacade]
       /\ calls' = [calls EXCEPT ![FreeSlot] = ImportAwaits(r, map, nFacades + 1)]
       /\ last' = ImportGoes("call", r, map, nFacades + 1)
       /\ UNCHANGED <<connections, now, adding, removing, retired, healthCheckTimer, broker>>

\* The continuation after the awaited addConnection settled: its entry is
\* stored and recorded as imported, or recorded as failed, and the loop goes on.
importConnections_resume(c, ans) ==
  LET call == calls[c]
      added == [id |-> call.id, config |-> call.config, facade |-> call.f]
      fs == IF ans = "ok" THEN CoreClient_connected(facades, call.f) ELSE facades
      m == addConnection_store(connections, added, ans, now)
      results == Append(call.results,
                        IF ans = "ok" THEN Imported(call.id)
                        ELSE ImportFailed(call.id, addConnection_error(added, ans)))
      r == importConnections_from(m, call.todo, results)
  IN
  /\ At(c, "importConnections", "connect")
  /\ connections' = m
  /\ IF r.todo = << >>
     THEN /\ facades' = fs
          /\ calls' = [calls EXCEPT ![c] = Idle]
          /\ last' = ImportReturns("resume", r, call.map)
          /\ UNCHANGED nFacades
     ELSE /\ nFacades < MaxFacades
          /\ nFacades' = nFacades + 1
          /\ facades' = [fs EXCEPT ![nFacades + 1] = NewFacade]
          /\ calls' = [calls EXCEPT ![c] = ImportAwaits(r, call.map, nFacades + 1)]
          /\ last' = ImportGoes("resume", r, call.map, nFacades + 1)
  /\ UNCHANGED <<now, adding, removing, retired, healthCheckTimer, broker>>

(***************************************************************************)
(* The queue operations of a client with the destination they are given,   *)
(* against the broker: the request is served when its answer is taken.     *)
(***************************************************************************)
FlowOps == {"sendMessage", "consumeMessage", "getQueueInfo", "purgeQueue"}

\* the calls of these operations that await the broker
Flowing == Cardinality({c \in Slots : calls[c].op \in FlowOps})

\* the call awaits getBrokerName first if the operation needs the name and
\* the client has none cached
FlowCall(op, tool, confirm, id, f, dest, message, req, needsName) ==
  [Idle EXCEPT !.op = op, !.tool = tool, !.confirm = confirm, !.id = id, !.f = f,
               !.dest = dest,
               !.message = message, !.req = req,
               !.pc = IF needsName /\ facades[f].brokerName = NoName THEN "name" ELSE "main",
               !.name = IF needsName /\ facades[f].brokerName # NoName
                        THEN facades[f].brokerName ELSE "",
               !.disc = needsName /\ facades[f].brokerName = NoName,
               !.seen = facades[f].returned]

\* tool and confirm are the tool that made the call and the confirm it was
\* given, "" when there is none
FlowAwaits_by(op, tool, confirm, id, f, dest, message, req, needsName) ==
  /\ InFlight < MaxInFlight
  /\ Len(broker.served) + Flowing < MaxServed
  /\ calls' = [calls EXCEPT ![FreeSlot] =
                 FlowCall(op, tool, confirm, id, f, dest, message, req, needsName)]
  /\ last' = [Step(IF tool # "" THEN tool ELSE op, "call", FALSE, TRUE, NoErr, id, f, 1, "")
                EXCEPT !.dest = dest, !.confirm = confirm]
  /\ UNCHANGED facades
  /\ clientFrame

FlowAwaits(op, tool, id, f, dest, message, req, needsName) ==
  FlowAwaits_by(op, tool, "", id, f, dest, message, req, needsName)

\* QueueService.sendMessage(destination, message) with a string message
QueueService_sendMessage_to(id, f, destination, message) ==
  IF QueueService_sendMessage_throws(facades, f) # NoErr
  THEN Nothing
  ELSE FlowAwaits("sendMessage", "", id, f, destination, message,
                  Request("send", parseDestination(destination).destinationName,
                          parseDestination(destination).destinationType,
                          FormData(message)),
                  FALSE)

\* QueueService.consumeMessage(destination)
QueueService_consumeMessage_from(id, f, destination) ==
  IF QueueService_consumeMessage_throws(facades, f) # NoErr
  THEN Nothing
  ELSE FlowAwaits("consumeMessage", "", id, f, destination, << >>,
                  Request("receive", parseDestination(destination).destinationName,
                          parseDestination(destination).destinationType, << >>),
                  FALSE)

\* QueueService.getQueueInfo(queueName)
QueueService_getQueueInfo_of(id, f, queueName) ==
  IF QueueService_getQueueInfo_throws(facades, f) # NoErr
  THEN Nothing
  ELSE FlowAwaits("getQueueInfo", "", id, f, queueName, << >>,
                  Request("read", cleanDestinationName(queueName), "queue", << >>), TRUE)

\* QueueService.purgeQueue(queueName), called by the tool `tool` that was
\* given `confirm`
QueueService_purgeQueue_of(tool, confirm, id, f, queueName) ==
  IF QueueService_purgeQueue_throws(facades, f) # NoErr
  THEN Nothing
  ELSE FlowAwaits_by("purgeQueue", tool, confirm, id, f, queueName, << >>,
                     Request("purge", cleanDestinationName(queueName), "queue", << >>), TRUE)

\* getQueueInfo, if it took the size from the number of messages ever enqueued
getQueueInfo_read_enqueued(queueName, cleanQueueName, reply) ==
  IF reply.rejected THEN QueueInfo(queueName, 0, 0, 0, 0, reply.msg)
  ELSE QueueInfo(cleanQueueName, reply.value.EnqueueCount, reply.value.ConsumerCount,
                 reply.value.EnqueueCount, reply.value.DequeueCount, "")

\* What getQueueInfo returns: queueData is response.data?.value || {}, each
\* count is queueData.<attribute> || 0; from the catch the zeroed record with
\* the name as it was given and error.message.
getQueueInfo_read(queueName, cleanQueueName, reply) ==
  IF reply.rejected THEN QueueInfo(queueName, 0, 0, 0, 0, reply.msg)
  ELSE IF ~reply.value.defined THEN QueueInfo(cleanQueueName, 0, 0, 0, 0, "")
  ELSE QueueInfo(cleanQueueName, reply.value.QueueSize, reply.value.ConsumerCount,
                 reply.value.EnqueueCount, reply.value.DequeueCount, "")

\* response.data?.value || 0
purgedCount(reply) == IF reply.value.defined THEN reply.value.count ELSE 0

\* what the operation of the call returns or throws on the answer
Flow_result(call, reply) ==
  IF call.op = "sendMessage"
  THEN [ok |-> ~reply.rejected,
        err |-> IF reply.rejected THEN <<"Failed to send message: ", reply.msg>> ELSE NoErr,
        ret |-> IF reply.rejected THEN "" ELSE "success",
        out |-> << >>, info |-> NoInfo, n |-> 0]
  ELSE IF call.op = "consumeMessage"
  THEN [ok |-> consumeMessage_result(reply).ok, err |-> consumeMessage_result(reply).err,
        ret |-> consumeMessage_result(reply).ret,
        out |-> IF consumeMessage_result(reply).ret = "message" THEN reply.body ELSE << >>,
        info |-> NoInfo, n |-> 0]
  ELSE IF call.op = "getQueueInfo"
  THEN [ok |-> TRUE, err |-> NoErr, ret |-> "info", out |-> << >>,
        info |-> getQueueInfo_read(call.dest, call.req.name, reply), n |-> 0]
  ELSE [ok |-> ~reply.rejected,
        err |-> IF reply.rejected THEN <<"Failed to purge queue: ", reply.msg>> ELSE NoErr,
        ret |-> IF reply.rejected THEN "" ELSE "purged",
        out |-> << >>, info |-> NoInfo,
        n |-> IF reply.rejected THEN 0 ELSE purgedCount(reply)]

\* an exchange that was served: the call as it was made, and its outcome
Exchange(call, result) ==
  [op |-> call.op, dest |-> call.dest, message |-> call.message, ok |-> result.ok,
   ret |-> result.ret, out |-> result.out, info |-> result.info, n |-> result.n]

\* The continuation after the answer to the operation's request: the broker
\* serves the request (unless it never gets there) and the call returns or
\* throws.  A tool that made the call returns its result, with success false
\* and the error message if the call threw.
Flow_resume(c, fails, reports) ==
  LET call == calls[c]
      r == IF fails THEN [broker |-> broker, reply |-> Failed("Network Error")]
           ELSE Broker_serve(broker, call.req, call.name, reports)
      result == Flow_result(call, r.reply)
  IN
  /\ call.op \in FlowOps
  /\ call.pc = "main"
  /\ call.req # NoRequest
  /\ broker' = [r.broker EXCEPT !.served = Append(@, Exchange(call, result))]
  /\ calls' = [calls EXCEPT ![c] = Idle]
  /\ last' = [Step(IF call.tool # "" THEN call.tool ELSE call.op, "resume", TRUE,
                   result.ok, result.err, call.id, call.f, 0, result.ret)
                EXCEPT !.dest = call.dest, !.out = result.out, !.info = result.info,
                       !.n = result.n, !.confirm = call.confirm, !.ans = r.reply]
  /\ UNCHANGED <<connections, facades, nFacades, now, adding, removing, retired,
                 healthCheckTimer>>

(***************************************************************************)
(* The MCP tools purge_queue and consume_message.                          *)
(***************************************************************************)
\* the values given as `confirm`, which the schema declares a boolean
Confirms == {"true", "false", "undefined"}

\* the methods of ActiveMQFacade
ActiveMQFacade_methods ==
  {"connect", "disconnect", "testConnection", "isConnected", "getConnectionInfo",
   "sendMessage", "consumeMessage", "browseMessages", "purgeQueue", "getQueueInfo",
   "listQueues", "publishMessage", "subscribeToTopic", "listTopics", "getBrokerInfo",
   "getBrokerHealth", "getBrokerStats", "getBrokerName", "parseDestination",
   "cleanDestinationName"}

\* the TypeError of a call of something that is not a function
ErrNotAFunction(callee) == <<callee, " is not a function">>

ErrConfirmationRequired ==
  <<"Confirmation required - set confirm to true to proceed with queue purge">>

\* the catch of a tool handler: the result with success false and isError
ToolFails(tool, confirm, id, queueName, err) ==
  /\ last' = [Step(tool, "call", TRUE, FALSE, err, id, 0, 0, "")
                EXCEPT !.dest = queueName, !.confirm = confirm]
  /\ UNCHANGED <<connections, facades, nFacades, now, adding, removing, calls, retired,
                 healthCheckTimer, broker>>

\* handlePurgeQueue, if it did not look at confirm
handlePurgeQueue_unconfirmed(v, queueName, confirm) ==
  LET r == getConnection(connections, facades, v) IN
  IF ~r.ok THEN ToolFails("purge_queue", confirm, v.s, queueName, r.err)
  ELSE QueueService_purgeQueue_of("purge_queue", confirm, v.s, r.facade, queueName)

\* QueueHandlers.handlePurgeQueue({connectionId, queueName, confirm})
handlePurgeQueue(v, queueName, confirm) ==
  LET r == getConnection(connections, facades, v) IN
  IF confirm # "true"
  THEN ToolFails("purge_queue", confirm, v.s, queueName, ErrConfirmationRequired)
  ELSE IF ~r.ok THEN ToolFails("purge_queue", confirm, v.s, queueName, r.err)
  ELSE QueueService_purgeQueue_of("purge_queue", confirm, v.s, r.facade, queueName)

\* QueueHandlers.handleConsumeMessage({connectionId, queueName}): the client
\* that getConnection returns is asked for receiveMessage
handleConsumeMessage(v, queueName) ==
  LET r == getConnection(connections, facades, v) IN
  IF ~r.ok THEN ToolFails("consume_message", "", v.s, queueName, r.err)
  ELSE IF "receiveMessage" \notin ActiveMQFacade_methods
  THEN ToolFails("consume_message", "", v.s, queueName, ErrNotAFunction("client.receiveMessage"))
  ELSE FlowAwaits("consumeMessage", "consume_message", v.s, r.facade,
                  <<"/", "queue", "/">> \o queueName, << >>,
                  Request("receive", queueName, "queue", << >>), FALSE)

(***************************************************************************)
(* ConnectionManager.getHealthStatus, getBrokerStats and getSystemStatus:  *)
(* the aggregates over every registered connection.                        *)
(***************************************************************************)
\* Connection.isHealthy
Connection_isHealthy(e, fs) == e.healthy /\ isConnected(fs, e.facade)

\* Connection.getHealthStatus
Connection_getHealthStatus(e, fs) ==
  [connectionId |-> e.id, healthy |-> Connection_isHealthy(e, fs),
   connected |-> isConnected(fs, e.facade), lastHealthCheck |-> e.lastHealthCheck,
   host |-> e.config.host, port |-> e.config.port]

RECURSIVE getHealthStatus_from(_, _, _, _)
getHealthStatus_from(m, fs, status, i) ==
  IF i > Len(m) THEN status
  ELSE getHealthStatus_from(m, fs,
         [status EXCEPT
            !.healthyConnections = IF Connection_isHealthy(m[i], fs) THEN @ + 1 ELSE @,
            !.unhealthyConnections = IF Connection_isHealthy(m[i], fs) THEN @ ELSE @ + 1,
            !.connections = ObjectSet(@, m[i].id, Connection_getHealthStatus(m[i], fs))],
         i + 1)

getHealthStatus(m, fs) ==
  getHealthStatus_from(m, fs, [NoHealthStatus EXCEPT !.totalConnections = Len(m)], 1)

\* what stats.brokers holds for a connection whose broker info was read
\* (connected is the flag of the client when the answer arrived) ...
BrokerInfo(connected) == [info |-> TRUE, connected |-> connected, error |-> NoErr]

\* ... and for one whose getBrokerInfo threw: {error, connected: false}
BrokerFailed(err) == [info |-> FALSE, connected |-> FALSE, error |-> err]

\* the catch of the loop, if it recorded nothing
getBrokerStats_caught_drops(stats, id, err) == stats

\* the catch of the loop: stats.brokers[connectionId] = {error, connected: false}
getBrokerStats_caught(stats, id, err) ==
  [stats EXCEPT !.brokers = ObjectSet(@, id, BrokerFailed(err))]

\* the try of the loop after `await getBrokerInfo()`
getBrokerStats_got(stats, id, connected, healthy) ==
  [stats EXCEPT !.brokers = ObjectSet(@, id, BrokerInfo(connected)),
                !.healthyConnections = IF healthy THEN @ + 1 ELSE @]

\* The loop of getBrokerStats from the entry at position i on: getBrokerInfo
\* of a client that is not connected throws before any request, which the
\* catch records, and the loop goes on; it stops at the first entry whose
\* getBrokerInfo sends a request (n is its position), or at the end of the
\* Map (n is 0).
RECURSIVE getBrokerStats_from(_, _, _, _)
getBrokerStats_from(m, fs, stats, i) ==
  IF i > Len(m) THEN [stats |-> stats, n |-> 0]
  ELSE IF isConnected(fs, m[i].facade) THEN [stats |-> stats, n |-> i]
  ELSE getBrokerStats_from(m, fs, getBrokerStats_caught(stats, m[i].id, ErrNotConnected),
                           i + 1)

\* the call that awaits getBrokerInfo of the entry at position i
StatsProbe(op, m, fs, i, stats, healthStatus) ==
  [Probe(m, fs, i) EXCEPT !.op = op, !.stats = stats, !.healthStatus = healthStatus]

\* the step of an aggregate
StatsStep(op, at, r, id, f, err, healthStatus) ==
  [Step(op, at, r.n = 0, TRUE, err, id, f, IF r.n = 0 THEN 0 ELSE 1,
        IF r.n = 0 THEN "stats" ELSE "")
     EXCEPT !.n = r.n, !.stats = r.stats, !.healthStatus = healthStatus]

\* The part of an aggregate that runs when it is called, up to the first
\* getBrokerInfo that sends a request.
Aggregate(op, healthStatus) ==
  LET r == getBrokerStats_from(connections, facades,
                               [NoStats EXCEPT !.totalConnections = Len(connections)], 1)
  IN
  /\ IF r.n = 0
     THEN /\ last' = StatsStep(op, "call", r, "", 0, NoErr, healthStatus)
          /\ UNCHANGED calls
     ELSE /\ InFlight < MaxInFlight
          /\ calls' = [calls EXCEPT ![FreeSlot] =
                         StatsProbe(op, connections, facades, r.n, r.stats, healthStatus)]
          /\ last' = StatsStep(op, "call", r, connections[r.n].id,
                               connections[r.n].facade, NoErr, healthStatus)
  /\ UNCHANGED <<connections, facades, nFacades, now, adding, removing, retired,
                 healthCheckTimer, broker>>

ConnectionManager_getBrokerStats ==
  Aggregate("ConnectionManager.getBrokerStats", NoHealthStatus)

\* getSystemStatus: getHealthStatus(), then `await this.getBrokerStats()`
ConnectionManager_getSystemStatus ==
  Aggregate("getSystemStatus", getHealthStatus(connections, facades))

\* connection.isHealthy() of the Connection the loop holds: one that was
\* removed meanwhile was disconnected by removeConnection before it was deleted
Held_isHealthy(m, fs, call) ==
  /\ isConnected(fs, call.f)
  /\ \E i \in 1..Len(m) : m[i].facade = call.f /\ m[i].healthy

\* The continuation after the broker answered the request of getBrokerInfo:
\* the entry is written, and the loop goes on behind it.
ConnectionManager_getBrokerStats_resume(c, ans) ==
  LET call == calls[c]
      stats == IF ans = "ok"
               THEN getBrokerStats_got(call.stats, call.id, isConnected(facades, call.f),
                                       Held_isHealthy(connections, facades, call))
               ELSE getBrokerStats_caught(call.stats, call.id,
                                          <<"Failed to get broker info: ", ans>>)
      r == getBrokerStats_from(connections, facades, stats, call.n + 1)
  IN
  /\ call.op \in {"ConnectionManager.getBrokerStats", "getSystemStatus"}
  /\ call.pc = "main"
  /\ calls' = [calls EXCEPT ![c] =
                 IF r.n = 0 THEN Idle
                 ELSE StatsProbe(call.op, connections, facades, r.n, r.stats,
                                 call.healthStatus)]
  /\ last' = StatsStep(call.op, "resume", r, call.id, call.f,
                       IF ans = "ok" THEN NoErr ELSE <<"Failed to get broker info: ", ans>>,
                       call.healthStatus)
  /\ UNCHANGED <<connections, facades, nFacades, now, adding, removing, retired,
                 healthCheckTimer, broker>>

(***************************************************************************)
(* The registry after `new ConnectionManager()`.                           *)
(***************************************************************************)
Init ==
  /\ connections = << >>
  /\ facades = [f \in FacadeIds |-> NewFacade]
  /\ nFacades = 0
  /\ now = 0
  /\ adding = {}
  /\ removing = [i \in Ids |-> 0]
  /\ calls = [c \in Slots |-> Idle]
  /\ retired = {}
  /\ healthCheckTimer = TRUE
  /\ broker = NoBroker
  /\ last = NoStep

Next ==
  \/ \E v \in IdArgs, config \in Configs : addConnection(v, config)
  \/ \E call \in adding, ans \in Answers : addConnection_resume(call, ans)
  \/ \E v \in LookupArgs : removeConnection(v)
  \/ \E id \in Ids : removeConnection_resume(id)
  \/ \E v \in LookupArgs : ConnectionManager_getConnection(v)

Spec == Init /\ [][Next]_vars

(***************************************************************************)
(* The registry under a running clock, its ids added, removed, added again.*)
(***************************************************************************)
NextReuse ==
  \/ \E i \in Ids, config \in ValidConfigs : addConnection(Str(i), config)
  \/ \E call \in adding, ans \in Answers : addConnection_resume(call, ans)
  \/ \E i \in Ids : removeConnection(Str(i))
  \/ \E id \in Ids : removeConnection_resume(id)
  \/ Tick

SpecReuse == Init /\ [][NextReuse]_vars

(***************************************************************************)
(* The registry with one connection and the operations addressed to it.    *)
(***************************************************************************)
NextOps ==
  \/ addConnection(Str("a"), Cfg(FALSE, "h1", "number", 8161))
  \/ \E call \in adding, ans \in Answers : addConnection_resume(call, ans)
  \/ removeConnection(Str("a"))
  \/ removeConnection_resume("a")
  \/ \E v \in {Str("a")} : ConnectionManager_sendMessage(v)
  \/ \E v \in {Str("a")} : ConnectionManager_consumeMessage(v)
  \/ \E v \in {Str("a")} : ConnectionManager_getQueueInfo(v)
  \/ \E v \in {Str("a")} : ConnectionManager_listQueues(v)
  \/ \E v \in {Str("a")} : ConnectionManager_listTopics(v)
  \/ \E v \in {Str("a")}, limit \in 0..MaxLimit : ConnectionManager_browseMessages(v, limit)
  \/ \E v \in {Str("a")} : ConnectionManager_purgeQueue(v)
  \/ \E v \in {Str("a")} : ConnectionManager_getBrokerInfo(v)
  \/ \E c \in Slots, ans \in NameAnswers : getBrokerName_resume(c, ans)
  \/ \E c \in Slots, ans \in Answers : sendMessage_resume(c, ans)
  \/ \E c \in Slots, ans \in MessageAnswers : consumeMessage_resume(c, ans)
  \/ \E c \in Slots, ans \in MessageAnswers : browseMessages_resume(c, ans)
  \/ \E c \in Slots, ans \in Answers : purgeQueue_resume(c, ans)
  \/ \E c \in Slots, ans \in ReadAnswers : getQueueInfo_resume(c, ans)
  \/ \E c \in Slots, ans \in Answers \cup NameAnswers : list_resume(c, ans)
  \/ \E c \in Slots, ans \in Answers : getBrokerInfo_resume(c, ans)

SpecOps == Init /\ [][NextOps]_vars

(***************************************************************************)
(* The registry under the health check while the clock runs: it starts     *)
(* with two connections added at time 0, which are removed meanwhile.      *)
(***************************************************************************)
InitProbe ==
  /\ connections = <<Connection("a", 1, Cfg(FALSE, "h1", "number", 8161), 0),
                     Connection("b", 2, Cfg(FALSE, "h2", "number", 8162), 0)>>
  /\ facades = [f \in FacadeIds |->
                  IF f <= 2 THEN CoreClient_connected(<<NewFacade, NewFacade>>, f)[f]
                  ELSE NewFacade]
  /\ nFacades = 2
  /\ now = 0
  /\ adding = {}
  /\ removing = [i \in Ids |-> 0]
  /\ calls = [c \in Slots |-> Idle]
  /\ retired = {}
  /\ healthCheckTimer = TRUE
  /\ broker = NoBroker
  /\ last = NoStep

NextProbe ==
  \/ \E i \in Ids : removeConnection(Str(i))
  \/ \E id \in Ids : removeConnection_resume(id)
  \/ ConnectionManager_performHealthCheck
  \/ \E c \in Slots : getBrokerName_resume(c, "brokerA")
  \/ \E c \in Slots, ans \in Answers : performHealthCheck_resume(c, ans)
  \/ Tick

SpecProbe == InitProbe /\ [][NextProbe]_vars

(***************************************************************************)
(* The registry shut down by disconnectAll while connections are added.    *)
(***************************************************************************)
NextDisconnectAll ==
  \/ \E i \in Ids : addConnection(Str(i), Cfg(FALSE, "h1", "number", 8161))
  \/ \E call \in adding, ans \in Answers : addConnection_resume(call, ans)
  \/ ConnectionManager_disconnectAll
  \/ \E c \in Slots : disconnectAll_resume(c)

SpecDisconnectAll == Init /\ [][NextDisconnectAll]_vars

(***************************************************************************)
(* Configs tested against the broker beside a registry in use.             *)
(***************************************************************************)
NextTest ==
  \/ addConnection(Str("a"), Cfg(FALSE, "h1", "number", 8161))
  \/ \E call \in adding, ans \in Answers : addConnection_resume(call, ans)
  \/ \E config \in Configs : ConnectionManager_testConnection(config)
  \/ \E c \in Slots, ans \in Answers : testConnection_connect_resume(c, ans)
  \/ \E c \in Slots, ans \in NameAnswers : getBrokerName_resume(c, ans)
  \/ \E c \in Slots, ans \in Answers : testConnection_resume(c, ans)

SpecTest == Init /\ [][NextTest]_vars

(***************************************************************************)
(* A registry of connections with credentials, exported.                   *)
(***************************************************************************)
NextExport ==
  \/ \E i \in ExportIds, config \in SecretConfigs : addConnection(Str(i), config)
  \/ \E call \in adding, ans \in Answers : addConnection_resume(call, ans)
  \/ ConnectionManager_exportConnections
  \/ Tick

SpecExport == Init /\ [][NextExport]_vars

(***************************************************************************)
(* Connections imported into a registry that another caller adds to.       *)
(***************************************************************************)
NextImport ==
  \/ \E i \in Ids : addConnection(Str(i), Cfg(FALSE, "h1", "number", 8161))
  \/ \E call \in adding, ans \in Answers : addConnection_resume(call, ans)
  \/ \E map \in ImportMaps : ConnectionManager_importConnections(map)
  \/ \E c \in Slots, ans \in Answers : importConnections_resume(c, ans)

SpecImport == Init /\ [][NextImport]_vars

(***************************************************************************)
(* The aggregates over a registry of two connections, whose clients are    *)
(* disconnected and whose entries are removed meanwhile.                   *)
(***************************************************************************)
NextStats ==
  \/ ConnectionManager_getBrokerStats
  \/ ConnectionManager_getSystemStatus
  \/ \E c \in Slots : getBrokerName_resume(c, "brokerA")
  \/ \E c \in Slots, ans \in Answers : ConnectionManager_getBrokerStats_resume(c, ans)
  \/ \E i \in Ids : removeConnection(Str(i))
  \/ \E id \in Ids : removeConnection_resume(id)

SpecStats == InitProbe /\ [][NextStats]_vars

(***************************************************************************)
(* The destination functions of a client applied to a string, and again    *)
(* to what they returned.                                                  *)
(***************************************************************************)
CoreClient_parseDestination ==
  /\ last' = [Step("parseDestination", "call", TRUE, TRUE, NoErr, "", 0, 0,
                   parseDestination(last.out).destinationType)
                EXCEPT !.dest = last.out,
                       !.out = parseDestination(last.out).destinationName]
  /\ UNCHANGED <<connections, facades, nFacades, now, adding, removing, calls, retired,
                 healthCheckTimer, broker>>

CoreClient_cleanDestinationName ==
  /\ last' = [Step("cleanDestinationName", "call", TRUE, TRUE, NoErr, "", 0, 0, "")
                EXCEPT !.dest = last.out, !.out = cleanDestinationName(last.out)]
  /\ UNCHANGED <<connections, facades, nFacades, now, adding, removing, calls, retired,
                 healthCheckTimer, broker>>

\* a client and a string at hand (out of the initial step)
InitDestination ==
  /\ connections = << >>
  /\ facades = [f \in FacadeIds |-> NewFacade]
  /\ nFacades = 1
  /\ now = 0
  /\ adding = {}
  /\ removing = [i \in Ids |-> 0]
  /\ calls = [c \in Slots |-> Idle]
  /\ retired = {}
  /\ healthCheckTimer = FALSE
  /\ broker = NoBroker
  /\ \E s \in Strings : last = [NoStep EXCEPT !.out = s]

NextDestination ==
  \/ CoreClient_parseDestination
  \/ CoreClient_cleanDestinationName

SpecDestination == InitDestination /\ [][NextDestination]_vars

(***************************************************************************)
(* A connected client, registered as connection a, against a broker whose  *)
(* queues are empty and which answers every request.                       *)
(***************************************************************************)
InitFlow ==
  /\ connections = <<Connection("a", 1, Cfg(FALSE, "h1", "number", 8161), 0)>>
  /\ facades = [f \in FacadeIds |->
                  IF f = 1 THEN CoreClient_connected(<<NewFacade>>, f)[f] ELSE NewFacade]
  /\ nFacades = 1
  /\ now = 0
  /\ adding = {}
  /\ removing = [i \in Ids |-> 0]
  /\ calls = [c \in Slots |-> Idle]
  /\ retired = {}
  /\ healthCheckTimer = TRUE
  /\ broker = NoBroker
  /\ last = NoStep

NextFlow ==
  \/ \E m \in Bodies : QueueService_sendMessage_to("a", 1, T1, m)
  \/ QueueService_sendMessage_to("a", 1, T2, Hello)
  \/ QueueService_consumeMessage_from("a", 1, T1)
  \/ \E q \in QueueArgs : QueueService_getQueueInfo_of("a", 1, q)
  \/ \E c \in Slots : getBrokerName_resume(c, broker.name)
  \/ \E c \in Slots : Flow_resume(c, FALSE, FALSE)

SpecFlow == InitFlow /\ [][NextFlow]_vars

(***************************************************************************)
(* The tools called with that connection, also after its client was        *)
(* disconnected; requests may get no answer.                               *)
(***************************************************************************)
ToolIds == {Str("a")}

NextTools ==
  \/ QueueService_sendMessage_to("a", 1, T1, Hello)
  \/ \E v \in ToolIds, confirm \in Confirms : handlePurgeQueue(v, <<"t1">>, confirm)
  \/ \E v \in ToolIds : handleConsumeMessage(v, <<"t1">>)
  \/ \E c \in Slots : getBrokerName_resume(c, broker.name)
  \/ \E c \in Slots, fails \in BOOLEAN, reports \in BOOLEAN : Flow_resume(c, fails, reports)
  \/ disconnect("a", 1)

SpecTools == InitFlow /\ [][NextTools]_vars

(***************************************************************************)
(* One client, constructed from a valid config and used directly.          *)
(***************************************************************************)
InitClient ==
  /\ connections = << >>
  /\ facades = [f \in FacadeIds |-> NewFacade]
  /\ nFacades = 1
  /\ now = 0
  /\ adding = {}
  /\ removing = [i \in Ids |-> 0]
  /\ calls = [c \in Slots |-> Idle]
  /\ retired = {}
  /\ healthCheckTimer = FALSE
  /\ broker = NoBroker
  /\ last = NoStep

NextClient ==
  \/ CoreClient_connect("", 1)
  \/ \E c \in Slots, ans \in Answers : CoreClient_connect_resume(c, ans)
  \/ disconnect("", 1)
  \/ getBrokerName("", 1)
  \/ \E c \in Slots, ans \in NameAnswers : getBrokerName_resume(c, ans)
  \/ QueueService_sendMessage("", 1)
  \/ \E c \in Slots, ans \in Answers : sendMessage_resume(c, ans)
  \/ QueueService_consumeMessage("", 1)
  \/ \E c \in Slots, ans \in MessageAnswers : consumeMessage_resume(c, ans)
  \/ \E limit \in 0..MaxLimit : QueueService_browseMessages("", 1, limit)
  \/ \E c \in Slots, ans \in MessageAnswers : browseMessages_resume(c, ans)
  \/ QueueService_purgeQueue("", 1)
  \/ \E c \in Slots, ans \in Answers : purgeQueue_resume(c, ans)
  \/ QueueService_getQueueInfo("", 1)
  \/ \E c \in Slots, ans \in ReadAnswers : getQueueInfo_resume(c, ans)
  \/ QueueService_listQueues("", 1)
  \/ TopicService_listTopics("", 1)
  \/ \E c \in Slots, ans \in Answers \cup NameAnswers : list_resume(c, ans)
  \/ TopicService_publishMessage("", 1)
  \/ \E c \in Slots, ans \in Answers : publishMessage_resume(c, ans)
  \/ TopicService_subscribeToTopic("", 1)
  \/ \E c \in Slots : subscribeToTopic_resume(c)
  \/ BrokerService_getBrokerInfo("", 1)
  \/ \E c \in Slots, ans \in Answers : getBrokerInfo_resume(c, ans)
  \/ BrokerService_getBrokerHealth("", 1)
  \/ \E c \in Slots, ans \in SteadyBrokerAnswers : getBrokerHealth_resume(c, ans)
  \/ BrokerService_getBrokerStats("", 1)
  \/ \E c \in Slots, ans \in Answers : getBrokerStats_resume(c, ans)

SpecClient == InitClient /\ [][NextClient]_vars

(***************************************************************************)
(* subscribeToTopic on a client while the clock runs.                      *)
(***************************************************************************)
NextSubscribe ==
  \/ \E timeout \in TimeoutOptions, maxMessages \in MaxMessagesOptions :
       TopicService_subscribeToTopic_with("", 1,
                                          [timeout |-> timeout, maxMessages |-> maxMessages])
  \/ \E c \in Slots : subscribeToTopic_wake(c)
  \/ Elapse

SpecSubscribe == InitClient /\ [][NextSubscribe]_vars

(***************************************************************************)
(* The same client, its connection opened and closed around its messages.  *)
(***************************************************************************)
NextConnect ==
  \/ CoreClient_connect("", 1)
  \/ \E c \in Slots, ans \in Answers : CoreClient_connect_resume(c, ans)
  \/ disconnect("", 1)
  \/ QueueService_sendMessage("", 1)
  \/ \E c \in Slots, ans \in Answers : sendMessage_resume(c, ans)
  \/ TopicService_publishMessage("", 1)
  \/ \E c \in Slots, ans \in Answers : publishMessage_resume(c, ans)
  \/ TopicService_subscribeToTopic("", 1)
  \/ \E c \in Slots : subscribeToTopic_resume(c)

SpecConnect == InitClient /\ [][NextConnect]_vars

(***************************************************************************)
(* The same client, reading messages from a queue.                         *)
(***************************************************************************)
NextBrowse ==
  \/ CoreClient_connect("", 1)
  \/ \E c \in Slots, ans \in Answers : CoreClient_connect_resume(c, ans)
  \/ disconnect("", 1)
  \/ QueueService_consumeMessage("", 1)
  \/ \E c \in Slots, ans \in MessageAnswers : consumeMessage_resume(c, ans)
  \/ \E limit \in 0..MaxLimit : QueueService_browseMessages("", 1, limit)
  \/ \E c \in Slots, ans \in MessageAnswers : browseMessages_resume(c, ans)

SpecBrowse == InitClient /\ [][NextBrowse]_vars

(***************************************************************************)
(* The same client, reading the counts of a queue.                         *)
(***************************************************************************)
NextQueueInfo ==
  \/ CoreClient_connect("", 1)
  \/ \E c \in Slots, ans \in Answers : CoreClient_connect_resume(c, ans)
  \/ disconnect("", 1)
  \/ QueueService_getQueueInfo("", 1)
  \/ \E c \in Slots, ans \in NameAnswers : getBrokerName_resume(c, ans)
  \/ \E c \in Slots, ans \in ReadAnswers : getQueueInfo_resume(c, ans)

SpecQueueInfo == InitClient /\ [][NextQueueInfo]_vars

(***************************************************************************)
(* The same client, asked for the health of a broker of any usage.         *)
(***************************************************************************)
NextHealth ==
  \/ CoreClient_connect("", 1)
  \/ \E c \in Slots, ans \in Answers : CoreClient_connect_resume(c, ans)
  \/ BrokerService_getBrokerHealth("", 1)
  \/ \E c \in Slots, ans \in NameAnswers : getBrokerName_resume(c, ans)
  \/ \E c \in Slots, ans \in BrokerAnswers : getBrokerHealth_resume(c, ans)

SpecHealth == InitClient /\ [][NextHealth]_vars

(***************************************************************************)
(* Properties.  A step is told by `last`: every step but a repeated        *)
(* rejection writes it, and a rejection changes nothing else.              *)
(***************************************************************************)
\* the registry holds an entry under this id
IsKey(m, id) == \E i \in 1..Len(m) : m[i].id = id

Entry(m, id) == m[CHOOSE i \in 1..Len(m) : m[i].id = id]

Tokens(err) == {err[k] : k \in 1..Len(err)}

\* the step taken is the part of `op` that runs when it is called
Called(op) == last'.op = op /\ last'.at = "call"

\* the step taken is a continuation of `op` in which the call returned or threw
Resumed(op) == last'.op = op /\ last'.at = "resume" /\ last'.done

\* everything but `last` is left as it is
NothingElse ==
  UNCHANGED <<connections, facades, nFacades, now, adding, removing, calls, retired, healthCheckTimer, broker>>

\* C1: addConnection with an id that is registered when it is called throws
\* "Connection '<id>' already exists" and leaves the registry, the entry under
\* the id (facade, config, createdAt, healthy) and every facade as they were, so
\* the facade of the entry stays connected if it was.
C1_DuplicateRejected ==
  [][ (Called("addConnection") /\ IsKey(connections, last'.id))
        => /\ last'.done /\ ~last'.ok
           /\ last'.err = <<"Connection '", last'.id, "' already exists">>
           /\ Entry(connections', last'.id) = Entry(connections, last'.id)
           /\ NothingElse ]_vars

C1_Witness ==
  /\ last.op = "addConnection" /\ last.at = "call" /\ ~last.ok
  /\ IsKey(connections, last.id)
  /\ "' already exists" \in Tokens(last.err)
  /\ facades[Entry(connections, last.id).facade].connected

\* C2: when the connect() of an addConnection(id, config) succeeds, the call
\* returns, and getConnectionInfo(id) in the state it returns in reports
\* connected = true and the host and port of that call's config.
C2_AddThenInfo ==
  [][ (Resumed("addConnection") /\ last'.ok)
        => /\ IsKey(connections', last'.id)
           /\ getConnectionInfo(connections', facades', last'.id).connected
           /\ \E call \in adding \ adding' :
                /\ call.id = last'.id
                /\ CoreClient_constructor(call.config) = NoErr
                /\ getConnectionInfo(connections', facades', last'.id).host = call.config.host
                /\ getConnectionInfo(connections', facades', last'.id).port = call.config.port ]_vars

C2_Witness ==
  /\ last.op = "addConnection" /\ last.at = "resume" /\ last.ok
  /\ getConnectionInfo(connections, facades, last.id).connected
  /\ getConnectionInfo(connections, facades, last.id).host = "h2"
  /\ getConnectionInfo(connections, facades, last.id).port = 8162

\* the errors of the facade's constructor
ConstructorErrors == {CoreClient_constructor(config) : config \in InvalidConfigs}

\* every entry of the registry holds a facade whose connect() once succeeded
NoHalfRegistered(m, fs) == \A i \in 1..Len(m) : fs[m[i].facade].everConnected

\* C3 as stated: a failure of the facade's construction or of connect() is an
\* error that names the connection id, and the id is not added by the call.
C3_ErrorNamesId ==
  (/\ last.op = "addConnection" /\ ~last.ok
   /\ last.err # ErrInvalidId
   /\ "' already exists" \notin Tokens(last.err))
    => last.id \in Tokens(last.err)

\* C3, amended: a failed connect() makes addConnection throw "Failed to connect
\* to '<id>': ...", which names the id; a failed construction of the facade
\* throws the constructor's own error, unchanged; either failure leaves the
\* registry as it was; and every registered entry holds a facade that connected.
C3_StoredOnlyAfterConnect ==
  [][ /\ (Resumed("addConnection") /\ ~last'.ok)
         => /\ last'.err[1] = "Failed to connect to '" /\ last'.err[2] = last'.id
            /\ connections' = connections
      /\ (Called("addConnection") /\ last'.done /\ last'.id # ""
            /\ ~IsKey(connections, last'.id))
         => /\ ~last'.ok /\ last'.err \in ConstructorErrors
            /\ NothingElse
      /\ NoHalfRegistered(connections', facades') ]_vars

C3_Witness ==
  /\ last.op = "addConnection" /\ last.at = "call" /\ ~last.ok
  /\ last.err = <<"Host is required in configuration">>
  /\ last.id = "a" /\ ~IsKey(connections, "a")
  /\ Len(connections) = 1

\* C4: removeConnection with an id that is not registered throws "Connection
\* '<id>' not found" and changes nothing; with a registered id it goes on, and
\* when it returns the id is absent from listConnections(). The disconnect it
\* awaits cannot make it throw.
C4_Remove ==
  [][ /\ (Called("removeConnection") /\ ~IsKey(connections, last'.id))
         => /\ last'.done /\ ~last'.ok
            /\ last'.err[1] = "Connection '" /\ last'.err[3] = "' not found"
            /\ NothingElse
      /\ (Called("removeConnection") /\ IsKey(connections, last'.id))
         => ~last'.done /\ last'.ok
      /\ Resumed("removeConnection")
         => /\ last'.ok
            /\ \A i \in 1..Len(listConnections(connections', facades')) :
                 listConnections(connections', facades')[i].connectionId # last'.id ]_vars

C4_Witness ==
  /\ last.op = "removeConnection" /\ last.at = "resume" /\ last.ok
  /\ ~IsKey(connections, last.id)
  /\ Len(connections) = 1
  /\ \E r \in retired : r.id = last.id

\* C5: an id that was registered and removed is not refused by addConnection,
\* and when the connect() of that addConnection succeeds the id is registered
\* again, with the facade constructed by that call (never one of a removed
\* entry), createdAt the time of the registration, and healthy = true.
C5_IdReuse ==
  [][ /\ \A r \in retired', config \in ValidConfigs :
           ~IsKey(connections', r.id)
             => addConnection_throws(connections', Str(r.id), config) = NoErr
      /\ (Resumed("addConnection") /\ last'.ok /\ \E r \in retired : r.id = last'.id)
         => /\ IsKey(connections', last'.id)
            /\ Entry(connections', last'.id).facade = last'.f
            /\ \A r \in retired : r.facade # last'.f
            /\ Entry(connections', last'.id).createdAt = now
            /\ Entry(connections', last'.id).healthy ]_vars

C5_Witness ==
  /\ last.op = "addConnection" /\ last.at = "resume" /\ last.ok
  /\ \E r \in retired : r.id = last.id /\ r.facade # last.f
  /\ now > 0
  /\ Entry(connections, last.id).createdAt = now
  /\ Entry(connections, last.id).facade = last.f

\* the ids that the message of a not-found error lists
Listed(err) == Tokens(SubSeq(err, 4, Len(err))) \ {", "}

\* C6: getConnection(id) with a non-empty string id throws "Connection '<id>'
\* not found" with exactly the registered ids listed (or "No connections
\* available") when the id is not registered, throws "Connection '<id>' is not
\* active" when the facade of its entry is disconnected, and else returns that
\* facade; it sends nothing and changes nothing, and when it throws, each
\* per-connection operation of the registry throws the same error at once.
C6_Lookup ==
  [][ (Called("getConnection") /\ last'.id # "")
        => /\ last'.done /\ last'.reqs = 0 /\ NothingElse
           /\ IF ~IsKey(connections, last'.id)
              THEN /\ ~last'.ok
                   /\ last'.err[1] = "Connection '" /\ last'.err[2] = last'.id
                   /\ IF Len(connections) = 0
                      THEN last'.err[3] = "' not found. No connections available."
                      ELSE /\ last'.err[3] = "' not found. Available connections: "
                           /\ Listed(last'.err) = {connections[i].id : i \in 1..Len(connections)}
              ELSE IF ~facades[Entry(connections, last'.id).facade].connected
              THEN /\ ~last'.ok
                   /\ last'.err = <<"Connection '", last'.id, "' is not active">>
              ELSE /\ last'.ok /\ last'.f = Entry(connections, last'.id).facade
           /\ ~last'.ok
              => /\ ConnectionManager_sendMessage_throws(connections, facades, Str(last'.id)) = last'.err
                 /\ ConnectionManager_consumeMessage_throws(connections, facades, Str(last'.id)) = last'.err
                 /\ ConnectionManager_browseMessages_throws(connections, facades, Str(last'.id)) = last'.err
                 /\ ConnectionManager_purgeQueue_throws(connections, facades, Str(last'.id)) = last'.err
                 /\ ConnectionManager_getQueueInfo_throws(connections, facades, Str(last'.id)) = last'.err
                 /\ ConnectionManager_listQueues_throws(connections, facades, Str(last'.id)) = last'.err
                 /\ ConnectionManager_listTopics_throws(connections, facades, Str(last'.id)) = last'.err
                 /\ ConnectionManager_getBrokerInfo_throws(connections, facades, Str(last'.id)) = last'.err ]_vars

C6_Witness ==
  /\ last.op = "getConnection" /\ ~last.ok
  /\ last.err = <<"Connection '", "c", "' not found. Available connections: ", "b", ", ", "a">>
  /\ Len(connections) = 2

C8_DisconnectIdempotent ==
  last.op = "disconnect"
    => /\ last.done /\ last.ok /\ last.err = NoErr /\ last.reqs = 0
       /\ ~facades[last.f].connected

C8_Witness ==
  /\ last.op = "disconnect" /\ last.ok
  /\ facades[1].everConnected
  /\ ~facades[1].connected

\* the operations of the services
ServiceOps ==
  {"sendMessage", "consumeMessage", "browseMessages", "purgeQueue", "getQueueInfo",
   "listQueues", "publishMessage", "subscribeToTopic", "listTopics", "getBrokerInfo",
   "getBrokerHealth", "getBrokerStats"}

\* C9 as stated: on a client that is not connected no operation of the services
\* goes on to await anything; each throws 'Not connected to ActiveMQ broker'.
C9_NotConnected ==
  (last.at = "call" /\ last.op \in ServiceOps) => facades[last.f].connected

\* C10 as stated: a call made after getBrokerName() has returned a value on the
\* facade sends no discovery request and uses that value.
C10_NameCached ==
  /\ \A c \in Slots :
       (calls[c].pc # "idle" /\ calls[c].seen # NoName)
         => /\ ~calls[c].disc
            /\ calls[c].name \in {"", calls[c].seen}
  /\ (last.op = "getBrokerName" /\ last.at = "call" /\ last.done)
       => last.ret = facades[last.f].returned

\* C11 as stated: discovery of the broker's name never makes the operation that
\* needs it fail: a listing whose wildcard read and 'localhost' read failed goes
\* on from its discovery request to the read under a name, and getBrokerName
\* goes on from its discovery request with a name, whatever the requests answer.
C11_DiscoveryYieldsName ==
  [][ \A c \in Slots :
        /\ calls[c].pc = "disc" => calls'[c].pc \in {"disc", "named"}
        /\ calls[c].pc = "name"
             => \/ calls'[c].pc = "name"
                \/ calls'[c].pc = "main" /\ calls'[c].name \in BrokerNames
                \/ calls'[c].pc = "idle" /\ last'.ok /\ last'.ret \in BrokerNames ]_vars

\* C12 as stated: consumeMessage returns null when the broker answered 204 or
\* an empty body, returns the message when the broker answered with a body, and
\* throws for every other answer.
C12_ConsumeResult ==
  (last.op = "consumeMessage" /\ last.at = "resume")
    => IF last.ans.status = 204 \/ (~last.ans.rejected /\ last.ans.body = "")
       THEN last.ok /\ last.ret = "null"
       ELSE IF ~last.ans.rejected
       THEN last.ok /\ last.ret = "message"
       ELSE ~last.ok /\ last.err[1] = "Failed to consume message: "

\* C13: while browseMessages(queue, limit) runs it holds fewer than limit
\* messages, so it has sent at most limit requests; an answer with a message
\* adds one message and either sends one more request or, at limit messages,
\* returns; 204 or no data returns the messages held so far at once; what it
\* returns never has more than limit items.
C13_BrowseBounded ==
  [][ \A c \in Slots :
        (calls[c].op = "browseMessages" /\ calls[c].pc = "main")
          => /\ calls[c].n < calls[c].limit
             /\ (calls'[c] # calls[c])
                  => /\ last'.op = "browseMessages"
                     /\ IF calls'[c].pc = "idle"
                        THEN /\ last'.done
                             /\ last'.ok => /\ last'.n <= calls[c].limit
                                            /\ last'.n \in {calls[c].n, calls[c].n + 1}
                             /\ (last'.ans.status = 204 \/ ~last'.ans.truthy)
                                  => last'.n <= calls[c].n
                        ELSE /\ calls'[c].n = calls[c].n + 1
                             /\ calls'[c].limit = calls[c].limit
                             /\ calls'[c].n < calls'[c].limit
                             /\ last'.ans.truthy /\ last'.reqs = 1 ]_vars

C13_Witness ==
  /\ last.op = "browseMessages" /\ last.done /\ last.ok
  /\ last.n = MaxLimit
  /\ last.ans.truthy

\* C14: getQueueInfo, once past the check of the connection, never throws: when
\* the read of the queue's management object is rejected it returns a record
\* with size, consumerCount, enqueueCount and dequeueCount 0 whose error is the
\* message of the failure.
C14_QueueInfoDegrades ==
  (last.op = "getQueueInfo" /\ last.at = "resume" /\ last.done)
    => /\ last.ok /\ last.err = NoErr
       /\ last.ans.rejected
            => /\ last.info.size = 0 /\ last.info.consumerCount = 0
               /\ last.info.enqueueCount = 0 /\ last.info.dequeueCount = 0
               /\ last.info.error = last.ans.msg /\ last.info.error # ""

C14_Witness ==
  /\ last.op = "getQueueInfo" /\ last.done /\ last.ok
  /\ last.ans.rejected /\ last.ans.status = 404
  /\ last.info = QueueInfo("/queue/q", 0, 0, 0, 0, "Request failed with status code 404")

\* p is usage/limit*100 rounded to the nearest integer (a half up), 0 if limit is 0
IsPercentage(p, usage, limit) ==
  IF limit = 0 THEN p = 0
  ELSE 2 * p * limit - limit <= 200 * usage /\ 200 * usage < 2 * p * limit + limit

\* health h classifies the usage that answer a reports
Classified(a, h) ==
  LET P == {h.memoryUsagePercentage, h.storeUsagePercentage, h.tempUsagePercentage}
  IN /\ IsPercentage(h.memoryUsagePercentage, a.memoryUsage, a.memoryLimit)
     /\ IsPercentage(h.storeUsagePercentage, a.storeUsage, a.storeLimit)
     /\ IsPercentage(h.tempUsagePercentage, a.tempUsage, a.tempLimit)
     /\ (h.status = "critical") <=> (\E p \in P : p > 90)
     /\ (h.status = "warning") <=> ((\E p \in P : p > 75) /\ ~(\E p \in P : p > 90))
     /\ (h.status = "healthy") <=> (\A p \in P : p <= 75)
     /\ (a = BrokerData(<<95, 100>>, <<10, 100>>, <<10, 100>>)) => (h.status = "critical")
     /\ (a = BrokerData(<<80, 100>>, <<0, 0>>, <<0, 0>>)) => (h.status = "warning")
     /\ (a = BrokerData(<<10, 100>>, <<10, 100>>, <<10, 100>>)) => (h.status = "healthy")

\* C15: the health that getBrokerHealth returns for a broker that reports the
\* (usage, limit) pairs of memory, store and temp has each percentage equal to
\* round(usage/limit*100), 0 when the limit is 0, and status 'critical' if a
\* percentage is above 90, else 'warning' if one is above 75, else 'healthy';
\* (95,100),(10,100),(10,100) is critical, (80,100),(0,0),(0,0) is warning and
\* (10,100) three times is healthy.
C15_HealthClassification ==
  IF last.op = "getBrokerHealth" /\ last.done
  THEN last.ans.rejected \/ Classified(last.ans, last.health)
  ELSE TRUE

C15_Witness ==
  /\ last.op = "getBrokerHealth" /\ last.done
  /\ last.ans = BrokerData(<<80, 100>>, <<0, 0>>, <<0, 0>>)
  /\ last.health = HealthInfo("warning", 80, 0, 0, "")

\* the position of the registered connection whose probe the step completed
\* with the broker's answer, if any
Probed(m) ==
  {i \in 1..Len(m) :
     last'.ret \in {"passed", "failed"} /\ m[i].id = last'.id /\ m[i].facade = last'.f}

\* C16: when the probe of a registered connection completes, its healthy flag
\* is the facade's connected status if the broker-info request succeeded and
\* false if it failed (a client that is not connected fails it before any
\* request), lastHealthCheck is the time of the completion in both cases, and an
\* unhealthy connection whose probe succeeds on a connected facade is healthy.
C16_ProbeSetsHealth ==
  [][ last'.op = "performHealthCheck" =>
        /\ Keys(connections') = Keys(connections)
        /\ \A i \in Probed(connections) :
             /\ connections'[i].lastHealthCheck = now
             /\ connections'[i].healthy =
                  IF last'.ret = "passed"
                  THEN isConnected(facades, connections[i].facade)
                  ELSE FALSE
             /\ (~connections[i].healthy /\ last'.ret = "passed"
                   /\ isConnected(facades, connections[i].facade))
                  => connections'[i].healthy
        /\ \A i \in 1..Len(connections) :
             \/ connections'[i] = connections[i]
             \/ i \in Probed(connections)
             \/ /\ ~isConnected(facades, connections[i].facade)
                /\ ~connections'[i].healthy
                /\ connections'[i].lastHealthCheck = now
                /\ connections'[i] = [connections[i] EXCEPT !.healthy = FALSE,
                                                            !.lastHealthCheck = now]
    ]_vars

\* a connection that a failed probe had marked unhealthy has been probed again
\* later, with success, and is healthy
C16_Witness ==
  /\ last.op = "performHealthCheck" /\ last.at = "resume" /\ last.ret = "passed"
  /\ ~last.wasHealthy
  /\ Has(connections, last.id)
  /\ Get(connections, last.id).facade = last.f
  /\ Get(connections, last.id).healthy
  /\ Get(connections, last.id).lastHealthCheck = now
  /\ Get(connections, last.id).createdAt < now

\* C17: disconnectAll disconnects every registered connection when it is
\* called, and when it returns the registry is empty, the health-check timer
\* is stopped and every facade that was registered when it was called is not
\* connected; until it returns it removes nothing.
C17_DisconnectAll ==
  [][ /\ Called("disconnectAll") =>
           /\ \A f \in RegisteredFacades(connections) : ~isConnected(facades', f)
           /\ connections' = connections
      /\ Resumed("disconnectAll") =>
           /\ connections' = << >>
           /\ ~healthCheckTimer'
           /\ \A c \in Slots :
                (At(c, "disconnectAll", "settle") /\ calls'[c] = Idle) =>
                   \A f \in calls[c].started : ~isConnected(facades', f)
    ]_vars

\* disconnectAll has returned after it was called with two registered connections
C17_Witness ==
  /\ last.op = "disconnectAll" /\ last.at = "resume" /\ last.done
  /\ last.n = 2
  /\ connections = << >>
  /\ ~healthCheckTimer
  /\ Cardinality(retired) >= 2
  /\ \A r \in retired : ~isConnected(facades, r.facade)

\* a config without host, or whose port is missing, zero, negative or not a number
Malformed(config) ==
  config.nul \/ config.host = "" \/ config.ptype # "number" \/ config.port <= 0

\* C18: testConnection never changes the registry; it throws exactly when the
\* config is malformed, and then at once; with a well-formed config it returns
\* { success: false, error } when connect or the broker-info request fails
\* and { success: true, brokerInfo } when both succeed.
C18_TestConnection ==
  [][ /\ last'.op = "testConnection" =>
           /\ connections' = connections
           /\ adding' = adding /\ removing' = removing
           /\ ~last'.ok => last'.at = "call"
      /\ \A config \in Configs :
           ConnectionManager_testConnection(config) =>
             (last'.done /\ ~last'.ok) <=> Malformed(config)
      /\ \A c \in Slots, ans \in Answers :
           testConnection_connect_resume(c, ans) =>
             IF ans = "ok" THEN ~last'.done
             ELSE last'.done /\ last'.ok /\ last'.ret = "failure" /\ last'.err # NoErr
      /\ \A c \in Slots, ans \in Answers :
           testConnection_resume(c, ans) =>
             /\ last'.done /\ last'.ok
             /\ last'.ret = IF ans = "ok" THEN "success" ELSE "failure"
             /\ ans # "ok" => last'.err # NoErr
    ]_vars

\* a test has failed on the broker-info request, beside a registered connection
C18_Witness ==
  /\ last.op = "testConnection" /\ last.done /\ last.ok /\ last.ret = "failure"
  /\ last.err[1] = "Failed to get broker info: "
  /\ Keys(connections) = <<"a">>
  /\ last.f # Get(connections, "a").facade

\* the registry with every password replaced by pw
WithPasswords(m, pw) == [i \in 1..Len(m) |-> [m[i] EXCEPT !.config.password = pw]]

\* what the object holds, own or through its prototype, names no password field
\* and is the same whatever the passwords of the registry are
HidesPasswords(exports, m) ==
  /\ \A i \in 1..Len(exports.own) : "password" \notin DOMAIN exports.own[i].value
  /\ \A i \in 1..Len(exports.proto) : "password" \notin DOMAIN exports.proto[i]
  /\ \A pw \in {"", "s1", "s2"} : exportConnections(WithPasswords(m, pw)) = exports

\* the passwords of the registry appear nowhere in what exportConnections returns
PasswordsHidden ==
  last.op = "exportConnections" => HidesPasswords(last.exports, connections)

\* C19: what exportConnections returns has one entry per registered id, which
\* holds the host, port, username and createdAt of that connection and no
\* password, and is the same for registries that differ only in passwords.
C19_ExportPerId ==
  last.op = "exportConnections" =>
    /\ HidesPasswords(last.exports, connections)
    /\ ObjectKeys(last.exports) = Keys(connections)
    /\ \A i \in 1..Len(connections) :
         /\ i <= Len(last.exports.own)
         /\ last.exports.own[i].value.host = connections[i].config.host
         /\ last.exports.own[i].value.port = connections[i].config.port
         /\ last.exports.own[i].value.username = connections[i].config.username
         /\ last.exports.own[i].value.createdAt = connections[i].createdAt

\* r is s with records appended
Extends(r, s) == Len(s) <= Len(r) /\ SubSeq(r, 1, Len(s)) = s

\* the step is one of an import whose results were `before`, for the entry
\* `id` if it was awaiting one ("" if none): the results are kept and grow, only
\* the first new record can report success, it is the awaited entry's and that
\* entry is then registered; the registry changes in nothing else.
ImportStep(before, id, f) ==
  LET after == last'.results IN
  /\ Extends(after, before)
  /\ \A k \in (Len(before) + 1)..Len(after) :
       after[k].success =>
         /\ k = Len(before) + 1 /\ after[k].connectionId = id /\ id # ""
         /\ Has(connections', id) /\ Get(connections', id).facade = f
  /\ \A i \in 1..Len(connections) : connections[i].id # id => connections'[i] = connections[i]
  /\ IF Len(after) > Len(before) /\ after[Len(before) + 1].success
     THEN Len(connections') = Len(connections) + (IF Has(connections, id) THEN 0 ELSE 1)
     ELSE connections' = connections
  /\ last'.done =>
       /\ Len(after) = Len(last'.map)
       /\ \A k \in 1..Len(after) :
            /\ after[k].connectionId = last'.map[k].id
            /\ after[k].success => Has(connections', after[k].connectionId)
            /\ ~after[k].success => after[k].error # NoErr

\* C20: importConnections attempts addConnection for every entry, one after the
\* other: when it returns the results hold one record per entry of the map, in
\* the order of the map; a record once pushed stays; an entry that fails stops
\* nothing and adds nothing to the registry; an entry reported success is
\* registered when its record is pushed and when the import returns.
C20_Import ==
  [][ last'.op = "importConnections" =>
        IF last'.at = "call"
        THEN ImportStep(<< >>, "", 0)
        ELSE \A c \in Slots :
               (At(c, "importConnections", "connect") /\ calls'[c] # calls[c])
                 => ImportStep(calls[c].results, calls[c].id, calls[c].f)
    ]_vars

\* an import of two entries has returned: the first failed, the second is registered
C20_Witness ==
  /\ last.op = "importConnections" /\ last.done
  /\ Len(last.results) = 2
  /\ ~last.results[1].success
  /\ last.results[2].success
  /\ Has(connections, last.results[2].connectionId)

(***************************************************************************)
(* The aggregates.                                                         *)
(***************************************************************************)
AggregateOps == {"ConnectionManager.getBrokerStats", "getSystemStatus"}

ObjectHas(obj, key) == \E i \in 1..Len(obj.own) : obj.own[i].key = key

ObjectGet(obj, key) == obj.own[CHOOSE i \in 1..Len(obj.own) : obj.own[i].key = key].value

\* every entry of stats.brokers is a broker info or the record of a failure
BrokersWellFormed(brokers) ==
  \A i \in 1..Len(brokers.own) :
    \/ brokers.own[i].value.info /\ brokers.own[i].value.error = NoErr
    \/ /\ brokers.own[i].value = BrokerFailed(brokers.own[i].value.error)
       /\ brokers.own[i].value.error # NoErr

\* C21: getBrokerStats() and getSystemStatus() never fail because the
\* broker-info request of one connection fails.  No step of an aggregate
\* throws; the step that takes a failed request, or finds a client not
\* connected, writes {error, connected: false} under that connection's id and
\* keeps the entries written before; the step that takes an answered request
\* writes the broker info; unless the loop is at its end the next connected
\* connection is asked; and the aggregate that is returned holds an entry for
\* every registered connection.
C21_AggregateSurvives ==
  [][/\ last'.op \in AggregateOps =>
          /\ last'.ok
          /\ BrokersWellFormed(last'.stats.brokers)
          /\ last'.at = "call" =>
               \A i \in 1..Len(connections') :
                 (last'.done \/ i < last'.n)
                   => /\ ~isConnected(facades', connections'[i].facade)
                      /\ ObjectHas(last'.stats.brokers, connections'[i].id)
                      /\ ObjectGet(last'.stats.brokers, connections'[i].id)
                           = BrokerFailed(ErrNotConnected)
          /\ last'.done =>
               /\ last'.ret = "stats"
               /\ \A i \in 1..Len(connections') :
                    ObjectHas(last'.stats.brokers, connections'[i].id)
     /\ \A c \in Slots :
          (/\ calls[c].op \in AggregateOps
           /\ calls[c].pc = "main"
           /\ last'.op = calls[c].op
           /\ last'.at = "resume"
           /\ calls'[c] # calls[c])
          => LET before == calls[c].stats.brokers
                 after == last'.stats.brokers
             IN /\ ObjectHas(after, calls[c].id)
                /\ IF last'.err # NoErr
                   THEN ObjectGet(after, calls[c].id) = BrokerFailed(last'.err)
                   ELSE ObjectGet(after, calls[c].id).info
                /\ \A i \in 1..Len(before.own) :
                     before.own[i].key # calls[c].id
                       => /\ ObjectHas(after, before.own[i].key)
                          /\ ObjectGet(after, before.own[i].key) = before.own[i].value
                /\ ~last'.done =>
                     /\ calls'[c].op = calls[c].op
                     /\ calls'[c].stats = last'.stats
                     /\ calls'[c].n > calls[c].n
                     /\ isConnected(facades', calls'[c].f)
                     /\ connections'[calls'[c].n].id = calls'[c].id
    ]_vars

\* an aggregate was returned in which the request of the first connection
\* failed and the second connection got its broker info
C21_Witness ==
  /\ last.op \in AggregateOps
  /\ last.at = "resume"
  /\ last.done
  /\ last.ok
  /\ Len(last.stats.brokers.own) = 2
  /\ last.stats.brokers.own[1].key = "a"
  /\ last.stats.brokers.own[1].value
       = BrokerFailed(<<"Failed to get broker info: ", "Network Error">>)
  /\ last.stats.brokers.own[2].key = "b"
  /\ last.stats.brokers.own[2].value.info

(***************************************************************************)
(* Destination strings.                                                    *)
(***************************************************************************)
Prefixes == {SlashQueue, SlashTopic, BareQueue, BareTopic}

\* s without its first n pieces
Rest(s, n) == SubSeq(s, n + 1, Len(s))

\* C22: parseDestination is total over strings and never fails.  A
\* destination that starts with '/queue/' or 'queue/' yields type queue and
\* the rest as name, one that starts with '/topic/' or 'topic/' yields type
\* topic and the rest as name, any other string yields type queue and the
\* string itself as name; the name is the input or the input without its
\* prefix, so at most one prefix is stripped.
C22_ParseDestination ==
  last.op = "parseDestination" =>
    /\ last.done /\ last.ok
    /\ last.ret \in {"queue", "topic"}
    /\ startsWith(last.dest, SlashQueue) => last.ret = "queue" /\ last.out = Rest(last.dest, 3)
    /\ startsWith(last.dest, BareQueue) => last.ret = "queue" /\ last.out = Rest(last.dest, 2)
    /\ startsWith(last.dest, SlashTopic) => last.ret = "topic" /\ last.out = Rest(last.dest, 3)
    /\ startsWith(last.dest, BareTopic) => last.ret = "topic" /\ last.out = Rest(last.dest, 2)
    /\ (\A p \in Prefixes : ~startsWith(last.dest, p))
         => last.ret = "queue" /\ last.out = last.dest

\* a destination with two prefixes was parsed, and the second one is still
\* in the name
C22_Witness ==
  /\ last.op = "parseDestination"
  /\ last.dest = <<"/", "queue", "/", "topic", "/">>
  /\ last.ret = "queue"
  /\ last.out = <<"topic", "/">>

\* C23: cleanDestinationName is idempotent, cleaning what it returned
\* returns the same string; and a name without any of the four prefixes is
\* returned unchanged.
C23_CleanIdempotent ==
  [][last'.op = "cleanDestinationName" =>
       /\ last.op = "cleanDestinationName" => last'.out = last.out
       /\ (\A p \in Prefixes : Occurrences(last'.dest, p) = {}) => last'.out = last'.dest
    ]_vars

\* a name in which none of the four prefixes occurs is returned unchanged
CleanKeepsPlainNames ==
  last.op = "cleanDestinationName" =>
    ((\A p \in Prefixes : Occurrences(last.dest, p) = {}) => last.out = last.dest)

(***************************************************************************)
(* The message flow.                                                       *)
(***************************************************************************)
\* the exchanges of h that name queue t1, but for the reads of its counters
OnT1(h) ==
  SelectSeq(h, LAMBDA e : e.dest \in {T1, <<"t1">>} /\ e.op # "getQueueInfo")

SentHello(e) == e.op = "sendMessage" /\ e.dest = T1 /\ e.message = Hello /\ e.ok

ConsumedHello(e) ==
  e.op = "consumeMessage" /\ e.dest = T1 /\ e.ok /\ e.ret = "message" /\ e.out = Hello

\* C24: on a connected client, against a broker whose queue t1 is empty:
\* once sendMessage('/queue/t1', 'hello') has succeeded and nothing else was
\* done to t1, getQueueInfo('t1') reports size 1 and enqueueCount 1, and a
\* consumeMessage('/queue/t1') returns a message whose body is 'hello'; once
\* that message was consumed as well, getQueueInfo('t1') reports size 0 and
\* dequeueCount 1.
C24_MessageFlow ==
  \A k \in 1..Len(broker.served) :
    LET e == broker.served[k]
        before == OnT1(SubSeq(broker.served, 1, k - 1))
    IN /\ (e.op = "getQueueInfo" /\ e.dest = <<"t1">> /\ Len(before) = 1
             /\ SentHello(before[1]))
          => e.info.size = 1 /\ e.info.enqueueCount = 1 /\ e.info.error = ""
       /\ (e.op = "consumeMessage" /\ e.dest = T1 /\ Len(before) = 1
             /\ SentHello(before[1]))
          => ConsumedHello(e)
       /\ (e.op = "getQueueInfo" /\ e.dest = <<"t1">> /\ Len(before) = 2
             /\ SentHello(before[1]) /\ ConsumedHello(before[2]))
          => e.info.size = 0 /\ e.info.dequeueCount = 1 /\ e.info.error = ""

\* the scenario ran: send, read, consume, read
C24_Witness ==
  /\ Len(broker.served) = 4
  /\ SentHello(broker.served[1])
  /\ broker.served[2].op = "getQueueInfo"
  /\ broker.served[2].info.size = 1
  /\ ConsumedHello(broker.served[3])
  /\ broker.served[4].op = "getQueueInfo"
  /\ broker.served[4].dest = <<"t1">>
  /\ broker.served[4].info.size = 0
  /\ broker.served[4].info.dequeueCount = 1
  /\ last.op = "getQueueInfo"
  /\ last.done

(***************************************************************************)
(* subscribeToTopic.                                                       *)
(***************************************************************************)
\* C25: subscribeToTopic(topic, {timeout, maxMessages}) is a bounded polling
\* loop: it returns a list of at most maxMessages messages, and no later than
\* the timeout it was given after it was called.
C25_SubscribeBounded ==
  (last.op = "subscribeToTopic" /\ last.done) =>
    /\ Len(last.timer.messages) <= last.timer.maxMessages
    /\ last.timer.options.timeout > 0
         => now - last.timer.startTime <= last.timer.options.timeout

\* what the loop does: it returns no message, at once or when the timer of
\* its first poll fires, one poll interval after the call
SubscribePollsOnce ==
  (last.op = "subscribeToTopic" /\ last.done) =>
    /\ last.timer.messages = << >>
    /\ now - last.timer.startTime \in {0, pollInterval}

(***************************************************************************)
(* Validation before the network.                                          *)
(***************************************************************************)
\* what addConnection throws for an argument it does not accept
RejectedArguments(id) ==
  {ErrInvalidId, ErrAlreadyExists(id), <<"Configuration is required">>,
   <<"Host is required in configuration">>,
   <<"Valid port number is required in configuration">>}

\* a config with a host and a positive numeric port
HasHostAndPort(config) ==
  ~config.nul /\ config.host # "" /\ config.ptype = "number" /\ config.port > 0

\* C26: a call of addConnection either throws at once one of the validation
\* errors, sending no request and leaving the registry, every facade and every
\* pending call as they were, or it sends its one request for a non-empty
\* string id that is not registered and a config with a host and a positive
\* numeric port: no call with an empty or non-string id, a registered id or a
\* config lacking host or positive numeric port reaches the network.
C26_FailFast ==
  [][ Called("addConnection")
        => \/ /\ last'.done /\ ~last'.ok /\ last'.reqs = 0 /\ NothingElse
              /\ last'.err \in RejectedArguments(last'.id)
           \/ /\ ~last'.done /\ last'.reqs = 1
              /\ connections' = connections
              /\ \E call \in adding' \ adding :
                   /\ adding' = adding \cup {call}
                   /\ call.id = last'.id /\ call.id # ""
                   /\ ~IsKey(connections, call.id)
                   /\ HasHostAndPort(call.config) ]_vars

C26_Witness ==
  /\ last.op = "addConnection" /\ last.at = "call" /\ last.done /\ ~last.ok
  /\ last.err = <<"Valid port number is required in configuration">>
  /\ last.reqs = 0
  /\ Len(connections) > 0
  /\ adding # {}

(***************************************************************************)
(* The tools.                                                              *)
(***************************************************************************)
\* the id is registered and the client of its entry is connected
Active(id) == IsKey(connections, id) /\ isConnected(facades, Entry(connections, id).facade)

\* the calls that await the answer to a purge request
Purging(cs) == {c \in Slots : cs[c].req.api = "purge"}

Held(b, queueName) == b.queues[queueName].messages

\* C28: consume_message called with the id of an active connection sends the
\* request for a message of the queue, and when the answer arrives returns a
\* success result that holds the oldest message of the queue, which the queue
\* then has lost, or a null message if the queue was empty; it returns no
\* error result without having asked the broker.
C28_ConsumeTool ==
  [][ /\ (Called("consume_message") /\ Active(last'.id))
         => /\ ~last'.done /\ last'.reqs = 1
            /\ \E c \in Slots : calls[c] = Idle /\ calls'[c].req.api = "receive"
      /\ (last'.op = "consume_message" /\ last'.at = "resume" /\ ~last'.ans.rejected)
         => /\ last'.done /\ last'.ok
            /\ IF Held(broker, calls[CHOOSE c \in Slots : calls'[c] # calls[c]].req.name) # << >>
               THEN /\ last'.ret = "message"
                    /\ last'.out =
                         Head(Held(broker,
                                   calls[CHOOSE c \in Slots : calls'[c] # calls[c]].req.name))
                    /\ Held(broker', calls[CHOOSE c \in Slots : calls'[c] # calls[c]].req.name)
                         = Tail(Held(broker,
                                     calls[CHOOSE c \in Slots : calls'[c] # calls[c]].req.name))
               ELSE last'.ret = "null" ]_vars

\* the state the tool is called in by the README's example: an active
\* connection and a queue that holds a message; the tool has answered with
\* an error and the message is still in the queue
ConsumeToolFailed ==
  /\ last.op = "consume_message" /\ last.done /\ ~last.ok
  /\ last.err = ErrNotAFunction("client.receiveMessage")
  /\ last.reqs = 0
  /\ Active(last.id)
  /\ Held(broker, last.dest) # << >>

(***************************************************************************)
(* ConfigManager: the configuration files and the environment.             *)
(***************************************************************************)
ActivemqConfigJson == "./activemq-config.json"
ConfigJson == "./config.json"
CustomPath == "/etc/activemq/custom.json"

Paths == {ActivemqConfigJson, ConfigJson, CustomPath}

\* A path holds no file, something that cannot be read or is not JSON, or a
\* JSON object of connections: one named after the file, and with "default"
\* a connection named default as well.
FileKinds == {"absent", "invalid", "named", "default"}

\* the port of a connection config: absent, a number, or NaN
Port(kind, n) == [kind |-> kind, n |-> n]
NoPort == Port("absent", 0)

ConfigEntry(host, port, username, password, ssl) ==
  [host |-> host, port |-> port, username |-> username, password |-> password,
   ssl |-> ssl]

\* {}: "" and "absent" stand for a property that is not there
NoEntry == ConfigEntry("", NoPort, "", "", "absent")

ConnectionNameOf(path) ==
  IF path = ActivemqConfigJson THEN "production"
  ELSE IF path = ConfigJson THEN "staging" ELSE "custom"

\* JSON.parse of the content of the file at path
JSON_parse(path, kind) ==
  LET named == ObjectSet(EmptyObject, ConnectionNameOf(path),
                         ConfigEntry(path, Port("number", 8161), "", "", "absent"))
  IN IF kind = "default"
     THEN ObjectSet(named, "default",
                    ConfigEntry(path, Port("number", 8161), "file", "", "false"))
     ELSE named

\* the digits of a text that parseInt reads, and the rest
Digits == {"1", "2"}
DigitValue(d) == IF d = "1" THEN 1 ELSE 2

RECURSIVE parseInt_from(_, _, _)
parseInt_from(text, i, n) ==
  IF i > Len(text) \/ text[i] \notin Digits THEN n
  ELSE parseInt_from(text, i + 1, 10 * n + DigitValue(text[i]))

\* parseInt(text, 10): the number of the leading digits, NaN without one
parseInt(text) ==
  IF text = << >> \/ text[1] \notin Digits THEN Port("NaN", 0)
  ELSE Port("number", parseInt_from(text, 1, 0))

\* process.env: "" and << >> stand for a variable that is not set
Environment(path, host, port, username, password, ssl, stagingHost) ==
  [ACTIVEMQ_CONFIG_PATH |-> path, ACTIVEMQ_HOST |-> host, ACTIVEMQ_PORT |-> port,
   ACTIVEMQ_USERNAME |-> username, ACTIVEMQ_PASSWORD |-> password, ACTIVEMQ_SSL |-> ssl,
   STAGING_ACTIVEMQ_HOST |-> stagingHost]

Environments ==
  {Environment(path, host, port, username, password, ssl, stagingHost) :
     path \in {"", CustomPath}, host \in {"", "envhost"},
     port \in {<< >>, <<"2", "1">>, <<"x">>}, username \in {"", "admin"},
     password \in {"", "secret"}, ssl \in {"", "true", "yes"},
     stagingHost \in {"", "staginghost"}}

\* [...].filter(Boolean)
configPaths(env) ==
  IF env.ACTIVEMQ_CONFIG_PATH = "" THEN <<ActivemqConfigJson, ConfigJson>>
  ELSE <<ActivemqConfigJson, ConfigJson, env.ACTIVEMQ_CONFIG_PATH>>

\* what loadConfig has done: this.config, the paths given to readFileSync in
\* order, and the path whose content became this.config ("" if none)
Loaded(config, reads, from) == [config |-> config, reads |-> reads, from |-> from]

\* The loop of loadConfig from the i-th path on: a file that exists is read
\* and parsed; `break` follows the assignment inside the try, and the catch
\* only logs.
RECURSIVE loadConfig_from(_, _, _, _)
loadConfig_from(paths, files, i, reads) ==
  IF i > Len(paths) THEN Loaded(EmptyObject, reads, "")
  ELSE IF files[paths[i]] = "absent" THEN loadConfig_from(paths, files, i + 1, reads)
  ELSE IF files[paths[i]] = "invalid"
  THEN loadConfig_from(paths, files, i + 1, Append(reads, paths[i]))
  ELSE Loaded(JSON_parse(paths[i], files[paths[i]]), Append(reads, paths[i]), paths[i])

\* envConfig of loadEnvironmentVariables
envConfig(env) ==
  ConfigEntry(env.ACTIVEMQ_HOST,
              IF env.ACTIVEMQ_PORT # << >> THEN parseInt(env.ACTIVEMQ_PORT) ELSE NoPort,
              env.ACTIVEMQ_USERNAME, env.ACTIVEMQ_PASSWORD,
              IF env.ACTIVEMQ_SSL = "" THEN "absent"
              ELSE IF env.ACTIVEMQ_SSL = "true" THEN "true" ELSE "false")

\* { ...a, ...b }
Spread(a, b) ==
  ConfigEntry(IF b.host # "" THEN b.host ELSE a.host,
              IF b.port # NoPort THEN b.port ELSE a.port,
              IF b.username # "" THEN b.username ELSE a.username,
              IF b.password # "" THEN b.password ELSE a.password,
              IF b.ssl # "absent" THEN b.ssl ELSE a.ssl)

\* config[name], {} for undefined as a spread takes it
ConfigOf(config, name) ==
  IF \E i \in 1..Len(config.own) : config.own[i].key = name
  THEN config.own[CHOOSE i \in 1..Len(config.own) : config.own[i].key = name].value
  ELSE NoEntry

\* loadMultipleEnvironmentBrokers with the variables of the connection STAGING
loadMultipleEnvironmentBrokers(config, env) ==
  IF env.STAGING_ACTIVEMQ_HOST = "" THEN config
  ELSE ObjectSet(config, "staging",
                 Spread(ConfigOf(config, "staging"),
                        ConfigEntry(env.STAGING_ACTIVEMQ_HOST, NoPort, "", "", "absent")))

loadEnvironmentVariables(config, env) ==
  loadMultipleEnvironmentBrokers(
    IF envConfig(env) # NoEntry
    THEN ObjectSet(config, "default", Spread(ConfigOf(config, "default"), envConfig(env)))
    ELSE config,
    env)

\* new ConfigManager() with the files and the environment at hand
ConfigManager_loadConfig ==
  /\ last.op = ""
  /\ last' = [Step("loadConfig", "call", TRUE, TRUE, NoErr, "", 0, 0, "")
                EXCEPT !.load =
                  [files |-> last.load.files, env |-> last.load.env,
                   file |-> loadConfig_from(configPaths(last.load.env),
                                            last.load.files, 1, << >>),
                   config |-> loadEnvironmentVariables(
                                loadConfig_from(configPaths(last.load.env),
                                                last.load.files, 1, << >>).config,
                                last.load.env)]]
  /\ UNCHANGED <<connections, facades, nFacades, now, adding, removing, calls, retired,
                 healthCheckTimer, broker>>

InitConfig ==
  /\ connections = << >>
  /\ facades = [f \in FacadeIds |-> NewFacade]
  /\ nFacades = 0
  /\ now = 0
  /\ adding = {}
  /\ removing = [i \in Ids |-> 0]
  /\ calls = [c \in Slots |-> Idle]
  /\ retired = {}
  /\ healthCheckTimer = FALSE
  /\ broker = NoBroker
  /\ \E files \in [Paths -> FileKinds], env \in Environments :
       last = [NoStep EXCEPT !.load = [files |-> files, env |-> env,
                                       file |-> Loaded(EmptyObject, << >>, ""),
                                       config |-> EmptyObject]]

NextConfig == ConfigManager_loadConfig

SpecConfig == InitConfig /\ [][NextConfig]_vars

\* the paths of the search at which a file exists, by their place in the order
Existing(load) ==
  {i \in 1..Len(configPaths(load.env)) : load.files[configPaths(load.env)[i]] # "absent"}

FirstExisting(load) ==
  configPaths(load.env)[CHOOSE i \in Existing(load) : \A j \in Existing(load) : i <= j]

\* C29: after loading, the first existing path of ./activemq-config.json,
\* ./config.json, ACTIVEMQ_CONFIG_PATH is the only one that has been read
\* (none is read when none exists), no other file is the configuration, its
\* content is the configuration if it is JSON, and the environment variables
\* are laid over the 'default' connection.
C29_OneFile ==
  last.op = "loadConfig" =>
    /\ IF Existing(last.load) = {}
       THEN last.load.file = Loaded(EmptyObject, << >>, "")
       ELSE /\ last.load.file.reads = <<FirstExisting(last.load)>>
            /\ last.load.file.from \in {FirstExisting(last.load), ""}
            /\ last.load.files[FirstExisting(last.load)] # "invalid"
                 => last.load.file.from = FirstExisting(last.load)
    /\ envConfig(last.load.env) # NoEntry
         => ConfigOf(last.load.config, "default")
              = Spread(ConfigOf(last.load.file.config, "default"),
                       envConfig(last.load.env))

\* what the loader keeps to: the paths are tried in order, every existing
\* one is read until one parses, that one is the configuration and nothing
\* after it is read; the environment is laid over its 'default'
LoadsFirstParsed ==
  last.op = "loadConfig" =>
    LET paths == configPaths(last.load.env)
        parsed == {i \in Existing(last.load) : last.load.files[paths[i]] # "invalid"}
        stop == IF parsed = {} THEN Len(paths)
                ELSE CHOOSE i \in parsed : \A j \in parsed : i <= j
        read == {i \in Existing(last.load) : i <= stop}
    IN /\ Len(last.load.file.reads) = Cardinality(read)
       /\ \A i \in read : \E k \in 1..Len(last.load.file.reads) :
            last.load.file.reads[k] = paths[i]
       /\ last.load.file.from = IF parsed = {} THEN "" ELSE paths[stop]
       /\ envConfig(last.load.env) # NoEntry
            => ConfigOf(last.load.config, "default")
                 = Spread(ConfigOf(last.load.file.config, "default"),
                          envConfig(last.load.env))

\* the first existing file does not parse, and a later one was loaded
LoadedLaterFile ==
  /\ last.op = "loadConfig"
  /\ last.load.files[ActivemqConfigJson] = "invalid"
  /\ last.load.file.from = ConfigJson
  /\ last.load.file.reads = <<ActivemqConfigJson, ConfigJson>>

(***************************************************************************)
(* Identifiers under interleaving.                                         *)
(***************************************************************************)
\* C30: an addConnection(id) that returns success finds no entry under id:
\* between two successful calls for one id the id was removed, and no call
\* succeeds by replacing the entry that another call registered.
C30_UniqueUnderInterleaving ==
  [][ (Resumed("addConnection") /\ last'.ok) => ~IsKey(connections, last'.id) ]_vars

\* a second call for the id has returned success over the entry of the first:
\* the entry holds the second facade, and the first is still connected
ReplacedByConcurrentAdd ==
  /\ last.op = "addConnection" /\ last.at = "resume" /\ last.ok
  /\ Len(connections) = 1
  /\ \E f \in FacadeIds :
       /\ f # Entry(connections, last.id).facade
       /\ isConnected(facades, f)
       /\ isConnected(facades, Entry(connections, last.id).facade)
  /\ retired = {}
  /\ \A i \in Ids : removing[i] = 0

(***************************************************************************)
(* The health check over time.                                             *)
(***************************************************************************)
\* the probes of the health check whose request awaits its answer
ProbesInFlight(cs) == {c \in Slots : cs[c].op = "performHealthCheck"}

\* C31: at most one broker-info request of the health check is in flight at
\* any time.
C31_ProbesSequential == Cardinality(ProbesInFlight(calls)) <= 1

\* two passes of the health check await the answer to a probe of the same
\* connection: the interval fired again before the pass before it had ended
OverlappingPasses ==
  \E c, d \in ProbesInFlight(calls) :
    c # d /\ calls[c].id = calls[d].id /\ healthCheckTimer

\* The registry in use while the interval of the health check keeps firing
\* and every request and every disconnect comes to its end.
NextLive ==
  \/ \E i \in Ids : addConnection(Str(i), Cfg(FALSE, "h1", "number", 8161))
  \/ \E call \in adding, ans \in Answers : addConnection_resume(call, ans)
  \/ \E i \in Ids : removeConnection(Str(i))
  \/ \E id \in Ids : removeConnection_resume(id)
  \/ ConnectionManager_disconnectAll
  \/ \E c \in Slots : disconnectAll_resume(c)
  \/ ConnectionManager_performHealthCheck
  \/ \E c \in Slots : getBrokerName_resume(c, "brokerA")
  \/ \E c \in Slots, ans \in Answers : performHealthCheck_resume(c, ans)

\* the timer fires again and again while it is set; a request is answered or
\* times out, and a disconnect settles
FairLive ==
  /\ WF_vars(ConnectionManager_performHealthCheck)
  /\ WF_vars(\E call \in adding, ans \in Answers : addConnection_resume(call, ans))
  /\ WF_vars(\E id \in Ids : removeConnection_resume(id))
  /\ \A c \in Slots :
       /\ WF_vars(disconnectAll_resume(c))
       /\ WF_vars(getBrokerName_resume(c, "brokerA"))
       /\ WF_vars(\E ans \in Answers : performHealthCheck_resume(c, ans))

SpecLive == Init /\ [][NextLive]_vars /\ FairLive

\* the same registry, never shut down by disconnectAll
NextRunning ==
  \/ \E i \in Ids : addConnection(Str(i), Cfg(FALSE, "h1", "number", 8161))
  \/ \E call \in adding, ans \in Answers : addConnection_resume(call, ans)
  \/ \E i \in Ids : removeConnection(Str(i))
  \/ \E id \in Ids : removeConnection_resume(id)
  \/ ConnectionManager_performHealthCheck
  \/ \E c \in Slots : getBrokerName_resume(c, "brokerA")
  \/ \E c \in Slots, ans \in Answers : performHealthCheck_resume(c, ans)

SpecRunning == Init /\ [][NextRunning]_vars /\ FairLive

\* the probe of the connection registered under id has just come back
ProbeCameBack(id) ==
  /\ last.op = "performHealthCheck" /\ last.at = "resume" /\ last.id = id
  /\ IsKey(connections, id) /\ Entry(connections, id).facade = last.f

\* C32: under fairness of the timer, a connection that stays registered is
\* probed again and again: at any time it will be removed or a probe of it
\* will come back.
C32_KeepsProbing ==
  \A i \in Ids : []<>(~IsKey(connections, i) \/ ProbeCameBack(i))

\* a connection is registered and the timer of the health check is cleared:
\* it was added after, or while, disconnectAll ran
RegisteredWithoutTimer ==
  /\ connections # << >>
  /\ ~healthCheckTimer
  /\ \A c \in Slots : calls[c] = Idle
  /\ \A i \in 1..Len(connections) : isConnected(facades, connections[i].facade)

(***************************************************************************)
(* Connection a, created one tick ago, in use, one operation at a time,    *)
(* beside the health check and connection b added and removed.             *)
(***************************************************************************)
InitFrame ==
  /\ connections = <<Connection("a", 1, Cfg(FALSE, "h1", "number", 8161), 0)>>
  /\ facades = [f \in FacadeIds |->
                  IF f = 1 THEN CoreClient_connected(<<NewFacade>>, f)[f] ELSE NewFacade]
  /\ nFacades = 1
  /\ now = 1
  /\ adding = {}
  /\ removing = [i \in Ids |-> 0]
  /\ calls = [c \in Slots |-> Idle]
  /\ retired = {}
  /\ healthCheckTimer = TRUE
  /\ broker = NoBroker
  /\ last = NoStep

\* no operation of a caller awaits an answer
Quiet ==
  /\ \A c \in Slots : calls[c].op \in {"", "performHealthCheck"}
  /\ adding = {}
  /\ \A i \in Ids : removing[i] = 0

\* no pass of the health check is under way
NoPass == \A c \in Slots : calls[c].op # "performHealthCheck"

\* an answer with a message, one without, and a request that failed
FrameMessageAnswers ==
  {Answer(FALSE, 200, "text", TRUE, ""), Answer(FALSE, 204, "", FALSE, "")}
    \cup {Answer(TRUE, 0, "", FALSE, e) : e \in NetErrors}

FrameReadAnswers ==
  {Answer(FALSE, 200, "value", TRUE, "")}
    \cup {Answer(TRUE, 0, "", FALSE, e) : e \in NetErrors}

NextFrame ==
  \/ Quiet /\ ConnectionManager_sendMessage(Str("a"))
  \/ Quiet /\ ConnectionManager_consumeMessage(Str("a"))
  \/ Quiet /\ ConnectionManager_getQueueInfo(Str("a"))
  \/ Quiet /\ ConnectionManager_listQueues(Str("a"))
  \/ Quiet /\ ConnectionManager_browseMessages(Str("a"), 1)
  \/ Quiet /\ ConnectionManager_purgeQueue(Str("a"))
  \/ Quiet /\ ConnectionManager_getBrokerInfo(Str("a"))
  \/ Quiet /\ ConnectionManager_getBrokerStats
  \/ \E c \in Slots : getBrokerName_resume(c, "brokerA")
  \/ \E c \in Slots, ans \in Answers : sendMessage_resume(c, ans)
  \/ \E c \in Slots, ans \in FrameMessageAnswers : consumeMessage_resume(c, ans)
  \/ \E c \in Slots, ans \in FrameMessageAnswers : browseMessages_resume(c, ans)
  \/ \E c \in Slots, ans \in Answers : purgeQueue_resume(c, ans)
  \/ \E c \in Slots, ans \in FrameReadAnswers : getQueueInfo_resume(c, ans)
  \/ \E c \in Slots, ans \in Answers : list_resume(c, ans)
  \/ \E c \in Slots, ans \in Answers : getBrokerInfo_resume(c, ans)
  \/ \E c \in Slots, ans \in Answers : ConnectionManager_getBrokerStats_resume(c, ans)
  \/ /\ Quiet
     /\ \E config \in {Cfg(FALSE, "h2", "number", 8162), Cfg(FALSE, "", "number", 8162)} :
          addConnection(Str("b"), config)
  \/ \E call \in adding, ans \in Answers : addConnection_resume(call, ans)
  \/ Quiet /\ removeConnection(Str("b"))
  \/ removeConnection_resume("b")
  \/ NoPass /\ ConnectionManager_performHealthCheck
  \/ \E c \in Slots, ans \in Answers : performHealthCheck_resume(c, ans)

SpecFrame == InitFrame /\ [][NextFrame]_vars

\* the same Connection object: a facade is constructed for one Connection
SameConnection(e, d) == e.id = d.id /\ e.facade = d.facade

\* C33: a Connection that enters the registry is healthy and its
\* lastHealthCheck is the time of its creation; afterwards both change only
\* in a step of the health check, and only for the connection whose probe
\* came back or failed at once because its client is not connected: every
\* other operation, whether it succeeds or fails, and the adding and removing
\* of other ids leave them as they are.
C33_HealthFrame ==
  [][ \A j \in 1..Len(connections') :
        IF \E i \in 1..Len(connections) : SameConnection(connections[i], connections'[j])
        THEN \A i \in 1..Len(connections) :
               ( /\ SameConnection(connections[i], connections'[j])
                 /\ \/ connections'[j].healthy # connections[i].healthy
                    \/ connections'[j].lastHealthCheck # connections[i].lastHealthCheck )
                 => /\ last'.op = "performHealthCheck"
                    /\ \/ i \in Probed(connections)
                       \/ ~isConnected(facades, connections[i].facade)
        ELSE /\ connections'[j].healthy
             /\ connections'[j].lastHealthCheck = now
             /\ connections'[j].createdAt = now ]_vars

\* a probe has found connection a unhealthy, and an operation on it that
\* succeeded afterwards has left it so; b is registered beside it
C33_Witness ==
  /\ last.op = "sendMessage" /\ last.at = "resume" /\ last.ok /\ last.id = "a"
  /\ IsKey(connections, "a") /\ IsKey(connections, "b")
  /\ ~Entry(connections, "a").healthy
  /\ Entry(connections, "a").lastHealthCheck = now
  /\ Entry(connections, "b").healthy

\* the entries registered under another id than the one the step addressed
Others(m, id) == {i \in 1..Len(m) : m[i].id # id}

\* C34: a step of an operation addressed to an id leaves every entry
\* registered under another id as it is: it stays registered with the same
\* facade, config and creation time, its client connected or not as before
\* and with the same cached broker name, and its healthy flag unchanged,
\* unless the step is one of the health check and the other entry's own probe
\* fails in it because its client is not connected.
C34_Independent ==
  [][ last'.id # ""
        => \A i \in Others(connections, last'.id) :
             /\ \E j \in 1..Len(connections') :
                  /\ connections'[j] = [connections[i] EXCEPT
                                          !.healthy = connections'[j].healthy,
                                          !.lastHealthCheck = connections'[j].lastHealthCheck]
                  /\ \/ /\ connections'[j].healthy = connections[i].healthy
                        /\ connections'[j].lastHealthCheck = connections[i].lastHealthCheck
                     \/ /\ last'.op = "performHealthCheck"
                        /\ ~isConnected(facades, connections[i].facade)
                        /\ ~connections'[j].healthy
             /\ facades'[connections[i].facade].connected
                  = facades[connections[i].facade].connected
             /\ facades'[connections[i].facade].brokerName
                  = facades[connections[i].facade].brokerName ]_vars

\* a message operation on a has failed while b is registered beside it,
\* connected, healthy and with the name of its broker cached
C34_Witness ==
  /\ last.id = "a" /\ last.at = "resume" /\ ~last.ok
  /\ last.op \in {"sendMessage", "consumeMessage", "purgeQueue"}
  /\ IsKey(connections, "b")
  /\ Entry(connections, "b").healthy
  /\ isConnected(facades, Entry(connections, "b").facade)
  /\ facades[Entry(connections, "b").facade].brokerName = "brokerA"

(***************************************************************************)
(* The usage percentages, for a broker that reports any usage and limit.   *)
(***************************************************************************)
MaxBytes == 3        \* largest usage and largest limit the broker reports

\* every pair of usage and limit
AnyPairs == {<<usage, limit>> : usage \in 0..MaxBytes, limit \in 0..MaxBytes}

\* every pair in each of the three places
AnyBrokerAnswers ==
  { BrokerData(p, <<1, 2>>, <<0, 0>>) : p \in AnyPairs }
    \cup { BrokerData(<<0, 0>>, p, <<1, 2>>) : p \in AnyPairs }
    \cup { BrokerData(<<1, 2>>, <<0, 0>>, p) : p \in AnyPairs }

NextUsage ==
  \/ CoreClient_connect("", 1)
  \/ \E c \in Slots, ans \in Answers : CoreClient_connect_resume(c, ans)
  \/ BrokerService_getBrokerHealth("", 1)
  \/ \E c \in Slots, ans \in NameAnswers : getBrokerName_resume(c, ans)
  \/ \E c \in Slots, ans \in AnyBrokerAnswers : getBrokerHealth_resume(c, ans)

SpecUsage == InitClient /\ [][NextUsage]_vars

\* getBrokerHealth has returned the health of a broker that answered
HealthReturned ==
  /\ last.op = "getBrokerHealth" /\ last.at = "resume" /\ last.done
  /\ last.health.status \in {"healthy", "warning", "critical"}

Percentages(h) ==
  {h.memoryUsagePercentage, h.storeUsagePercentage, h.tempUsagePercentage}

\* C35: every usage percentage that getBrokerHealth reports is an integer
\* from 0 to 100.
C35_PercentInRange ==
  HealthReturned => \A p \in Percentages(last.health) : p \in 0..100

\* what the percentages keep to: none is negative, and one is above 100 only
\* if the broker reported a usage above its limit
PercentAbove100OnlyOverLimit ==
  HealthReturned =>
    /\ \A p \in Percentages(last.health) : p \in Nat
    /\ last.ans.memoryUsage <= last.ans.memoryLimit
         => last.health.memoryUsagePercentage <= 100
    /\ last.ans.storeUsage <= last.ans.storeLimit
         => last.health.storeUsagePercentage <= 100
    /\ last.ans.tempUsage <= last.ans.tempLimit
         => last.health.tempUsagePercentage <= 100

(***************************************************************************)
(* The registry under every interleaving of adding, removing, shutting     *)
(* down, looking up and the passes of the health check.                    *)
(***************************************************************************)
\* the ids the registry is driven with
RegistryIds == {"a"}

NextRegistry ==
  \/ \E i \in RegistryIds : addConnection(Str(i), Cfg(FALSE, "h1", "number", 8161))
  \/ \E call \in adding, ans \in Answers : addConnection_resume(call, ans)
  \/ \E i \in RegistryIds : removeConnection(Str(i))
  \/ \E id \in Ids : removeConnection_resume(id)
  \/ ConnectionManager_disconnectAll
  \/ \E c \in Slots : disconnectAll_resume(c)
  \/ \E i \in RegistryIds : ConnectionManager_getConnection(Str(i))
  \/ NoPass /\ ConnectionManager_performHealthCheck
  \/ \E c \in Slots : getBrokerName_resume(c, "brokerA")
  \/ \E c \in Slots, ans \in Answers : performHealthCheck_resume(c, ans)

SpecRegistry == Init /\ [][NextRegistry]_vars

\* a removeConnection of the id, or a disconnectAll, awaits its disconnects
BeingRemoved(id) ==
  \/ removing[id] > 0
  \/ \E c \in Slots : calls[c].op = "disconnectAll"

\* C36: every registered connection is connected unless a removeConnection
\* of its id or a disconnectAll is in progress, and its client has connected
\* once; so listConnections reports connected = true for it, and
\* getConnection throws "is not active" only for an id that is being removed.
C36_RegisteredConnected ==
  /\ \A i \in 1..Len(connections) :
       /\ facades[connections[i].facade].everConnected
       /\ ~BeingRemoved(connections[i].id)
            => /\ isConnected(facades, connections[i].facade)
               /\ listConnections(connections, facades)[i].connected
  /\ (last.op = "getConnection" /\ last.err = ErrNotActive(last.id))
       => BeingRemoved(last.id)

\* a lookup met a registered connection whose removal awaits its disconnect
C36_Witness ==
  /\ last.op = "getConnection"
  /\ last.err = ErrNotActive(last.id)
  /\ removing[last.id] > 0
  /\ IsKey(connections, last.id)

\* getBrokerStats has returned its result
StatsReturned ==
  /\ last.op = "ConnectionManager.getBrokerStats"
  /\ last.done
  /\ last.ok

\* C37: every result getBrokerStats returns is a consistent snapshot, however
\* its loop interleaves with removals: brokers has as many entries as
\* totalConnections says, and healthyConnections is at most totalConnections.
C37_StatsSnapshot ==
  StatsReturned
    => /\ Len(last.stats.brokers.own) = last.stats.totalConnections
       /\ last.stats.healthyConnections <= last.stats.totalConnections

\* what remains: no result counts more brokers, or more healthy connections,
\* than it counted connections when no connection is added meanwhile
StatsCountsBounded ==
  StatsReturned
    => /\ Len(last.stats.brokers.own) <= last.stats.totalConnections
       /\ last.stats.healthyConnections <= Len(last.stats.brokers.own)

\* C38: the two destination helpers address the same queue: for every
\* string that parseDestination classifies as a queue, the name it returns is
\* the name cleanDestinationName returns for that string.
C38_SameQueue ==
  (last.op = "parseDestination" /\ last.ret = "queue")
    => last.out = cleanDestinationName(last.dest)

\* what remains: the two names agree when none of the four prefixes occurs
\* in the name parseDestination returns
SameQueueForPlainNames ==
  (/\ last.op = "parseDestination"
   /\ last.ret = "queue"
   /\ \A p \in Prefixes : Occurrences(last.out, p) = {})
    => last.out = cleanDestinationName(last.dest)

\* the entry but for the two fields a probe writes
WithoutHealth(e) == [e EXCEPT !.healthy = TRUE, !.lastHealthCheck = 0]

\* C39: a step of the health check neither adds nor removes a registry
\* entry; it changes at most the healthy flag and lastHealthCheck of
\* connections, and leaves every client as it is but for the broker name it
\* caches; so an id that was removed while its probe was in flight is not
\* registered when the probe has completed.
C39_ProbeKeepsRegistry ==
  [][last'.op = "performHealthCheck" =>
       /\ Keys(connections') = Keys(connections)
       /\ \A i \in 1..Len(connections) :
            WithoutHealth(connections'[i]) = WithoutHealth(connections[i])
       /\ \A f \in FacadeIds : facades'[f].connected = facades[f].connected
       /\ adding' = adding /\ removing' = removing /\ retired' = retired
       /\ (last'.at = "resume" /\ ~IsKey(connections, last'.id))
            => ~IsKey(connections', last'.id)
    ]_vars

\* the probe of a connection came back after the connection had been
\* removed, and the id is not registered
C39_Witness ==
  /\ last.op = "performHealthCheck"
  /\ last.at = "resume"
  /\ last.ret \in {"passed", "failed"}
  /\ last.id = "a"
  /\ ~IsKey(connections, "a")

(***************************************************************************)
(* The tools the server advertises and the dispatch of a tool call.        *)
(***************************************************************************)
\* the names of the TOOLS array, in its order
TOOLS ==
  <<"list_connections", "add_connection", "remove_connection", "test_connection",
    "connection_info", "health_status", "list_queues", "queue_info", "send_message",
    "consume_message", "browse_messages", "purge_queue", "list_topics",
    "publish_message", "subscribe_topic", "broker_info", "broker_stats",
    "export_connections", "import_connections", "system_status">>

\* the cases of the switch in handleTool, each with the handler it calls
handleTool_cases ==
  {<<"list_connections", "handleListConnections">>,
   <<"connect_broker", "handleConnectBroker">>,
   <<"connect_from_config", "handleConnectFromConfig">>,
   <<"show_config", "handleShowConfig">>,
   <<"remove_connection", "handleRemoveConnection">>,
   <<"test_connection", "handleTestConnection">>,
   <<"connection_info", "handleConnectionInfo">>,
   <<"health_status", "handleHealthStatus">>,
   <<"list_queues", "handleListQueues">>,
   <<"queue_info", "handleQueueInfo">>,
   <<"send_message", "handleSendMessage">>,
   <<"consume_message", "handleConsumeMessage">>,
   <<"browse_messages", "handleBrowseMessages">>,
   <<"purge_queue", "handlePurgeQueue">>,
   <<"list_topics", "handleListTopics">>,
   <<"publish_message", "handlePublishMessage">>,
   <<"subscribe_topic", "handleSubscribeTopic">>,
   <<"broker_info", "handleBrokerInfo">>,
   <<"broker_stats", "handleBrokerStats">>,
   <<"export_connections", "handleExportConnections">>,
   <<"import_connections", "handleImportConnections">>,
   <<"system_status", "handleSystemStatus">>}

Advertised == {TOOLS[i] : i \in 1..Len(TOOLS)}

Dispatched == {c[1] : c \in handleTool_cases}

\* the names a client may call: the advertised ones, those of the switch,
\* and two that are neither
ToolNames == Advertised \cup Dispatched \cup {"no_such_tool", ""}

ErrUnknownTool(name) == <<"Unknown tool: ", name>>

\* the switch: the handler of the case that matches, or the default
handleTool_switch(name) ==
  IF name \in Dispatched
  THEN (CHOOSE c \in handleTool_cases : c[1] = name)[2]
  ELSE "default"

\* ToolHandlers.handleTool(name, args) up to the handler it calls: the
\* default returns the result {success: false, error: 'Unknown tool: <name>'}
\* with isError
ToolHandlers_handleTool(name, v) ==
  /\ last' = [Step("handleTool", "call", handleTool_switch(name) = "default",
                   handleTool_switch(name) # "default",
                   IF handleTool_switch(name) = "default"
                   THEN ErrUnknownTool(name) ELSE NoErr,
                   v.s, 0, 0, handleTool_switch(name))
                EXCEPT !.out = <<name>>]
  /\ UNCHANGED <<connections, facades, nFacades, now, adding, removing, calls, retired,
                 healthCheckTimer, broker>>

\* the connectionId of the arguments: registered, never registered, empty, absent
DispatchArgs == LookupArgs \cup {Str("d")}

NextDispatch == \E name \in ToolNames, v \in DispatchArgs : ToolHandlers_handleTool(name, v)

SpecDispatch == InitFlow /\ [][NextDispatch]_vars

\* C40: every advertised tool name is dispatched to a handler: handleTool
\* returns the 'Unknown tool' result for no name of the TOOLS list.
C40_AdvertisedDispatched ==
  (last.op = "handleTool" /\ last.out[1] \in Advertised)
    => /\ last.err # ErrUnknownTool(last.out[1])
       /\ last.ret # "default"

\* what remains: every advertised name but add_connection has a case, and
\* the default answers exactly the names without one
DispatchedButAddConnection ==
  last.op = "handleTool" =>
    /\ last.out[1] \in Advertised \ {"add_connection"} => last.ret # "default"
    /\ last.ret = "default" <=> last.out[1] \notin Dispatched

====
